---------------------------- MODULE Spec2Model ----------------------------
(***************************************************************************)
(* Model of the Miner (Boulder Dash) client: the entity model, GameGrid,   *)
(* Level, the pure GameLogic resolvers (movePlayer, updatePhysics,         *)
(* checkLevelComplete) and the turn-based GameEngine that drives them.     *)
(*                                                                         *)
(* Objects are modelled by value.  A grid cell holds the record of the     *)
(* entity it references; the code never lets two cells reference the same  *)
(* object (moveEntity clears the source before it writes the destination), *)
(* so an update of "the object" is an update of the one cell holding it.   *)
(* The field id stands for the object's identity.                          *)
(***************************************************************************)
EXTENDS Integers, Sequences, FiniteSets, TLC

(***************************************************************************)
(* Entity model (game/entities)                                            *)
(***************************************************************************)

\* EntityType
EMPTY == "empty"
PLAYER == "player"
BOULDER == "boulder"
DIAMOND == "diamond"
DIRT == "dirt"
WALL == "wall"
EXIT == "exit"

\* A cell that references no entity (null).
Null == [type |-> "null"]

\* Direction
UP == "up"
DOWN == "down"
LEFT == "left"
RIGHT == "right"
Directions == {UP, DOWN, LEFT, RIGHT}
\* Direction | null
NoDirection == "null"

\* Default point value of a Diamond.
DiamondPoints == 10

\* Entity constructor: every per-type field is present on every record, with
\* the falsy value where the class does not define it.
Entity(id, x, y, type) ==
    [id |-> id, type |-> type, x |-> x, y |-> y,
     solid |-> FALSE,
     previousX |-> x, previousY |-> y, isAnimating |-> FALSE,
     falling |-> FALSE, alive |-> FALSE, diamondsCollected |-> 0,
     isOpen |-> FALSE, diamondsRequired |-> 0, points |-> 0]

Player(id, x, y) ==
    [Entity(id, x, y, PLAYER) EXCEPT !.solid = TRUE, !.alive = TRUE,
                                     !.diamondsCollected = 0]

Boulder(id, x, y) ==
    [Entity(id, x, y, BOULDER) EXCEPT !.solid = TRUE, !.falling = FALSE]

Diamond(id, x, y, points) ==
    [Entity(id, x, y, DIAMOND) EXCEPT !.solid = FALSE, !.falling = FALSE,
                                      !.points = points]

Dirt(id, x, y) ==
    [Entity(id, x, y, DIRT) EXCEPT !.solid = TRUE]

Wall(id, x, y) ==
    [Entity(id, x, y, WALL) EXCEPT !.solid = TRUE]

Exit(id, x, y, diamondsRequired) ==
    [Entity(id, x, y, EXIT) EXCEPT !.solid = FALSE,
                                   !.isOpen = (diamondsRequired = 0),
                                   !.diamondsRequired = diamondsRequired]

\* Entity.setPosition
setPosition(e, x, y) ==
    IF x # e.x \/ y # e.y
    THEN [e EXCEPT !.previousX = e.x, !.previousY = e.y, !.isAnimating = TRUE,
                   !.x = x, !.y = y]
    ELSE [e EXCEPT !.x = x, !.y = y]

\* Entity.getInterpolatedPosition
getInterpolatedPosition(e, progress) ==
    IF ~e.isAnimating
    THEN [x |-> e.x, y |-> e.y]
    ELSE [x |-> e.previousX + (e.x - e.previousX) * progress,
          y |-> e.previousY + (e.y - e.previousY) * progress]

\* Entity.resetAnimation
resetAnimation(e) ==
    [e EXCEPT !.previousX = e.x, !.previousY = e.y, !.isAnimating = FALSE]

\* collectDiamond adding a diamond's point value.
collectDiamondPoints(p) ==
    [p EXCEPT !.diamondsCollected = p.diamondsCollected + DiamondPoints]

\* Player.collectDiamond
collectDiamond(p) == [p EXCEPT !.diamondsCollected = p.diamondsCollected + 1]

\* Dirt.dig
dig(d) == [d EXCEPT !.type = EMPTY, !.solid = FALSE]

\* Boulder.startFalling / Diamond.startFalling
startFalling(e) == [e EXCEPT !.falling = TRUE]

\* Boulder.stopFalling / Diamond.stopFalling
stopFalling(e) == [e EXCEPT !.falling = FALSE]

\* Exit.open
open(e) == [e EXCEPT !.isOpen = TRUE, !.solid = FALSE]

\* checkOpenCondition opening only when the count exceeds the requirement.
checkOpenConditionStrict(e, diamondsCollected) ==
    IF diamondsCollected > e.diamondsRequired /\ ~e.isOpen THEN open(e) ELSE e

\* Exit.checkOpenCondition
checkOpenCondition(e, diamondsCollected) ==
    IF diamondsCollected >= e.diamondsRequired /\ ~e.isOpen THEN open(e) ELSE e

(***************************************************************************)
(* GameGrid (game/core)                                                    *)
(***************************************************************************)

Cells(width, height) == (0 .. width - 1) \X (0 .. height - 1)

\* GameGrid constructor / initializeGrid: every cell null.
GameGrid(width, height) ==
    [width |-> width, height |-> height,
     cells |-> [p \in Cells(width, height) |-> Null]]

isValidPosition(grid, x, y) ==
    x >= 0 /\ x < grid.width /\ y >= 0 /\ y < grid.height

getEntity(grid, x, y) ==
    IF ~isValidPosition(grid, x, y) THEN Null ELSE grid.cells[<<x, y>>]

\* setEntity: the grid after the call and the boolean it returns.
setEntity(grid, x, y, entity) ==
    IF ~isValidPosition(grid, x, y)
    THEN [grid |-> grid, ok |-> FALSE]
    ELSE [grid |-> [grid EXCEPT !.cells[<<x, y>>] =
                        IF entity # Null THEN setPosition(entity, x, y) ELSE Null],
          ok |-> TRUE]

\* moveEntity without the test of the destination's solidity.
moveEntityOverSolid(grid, fromX, fromY, toX, toY) ==
    IF ~isValidPosition(grid, fromX, fromY) \/ ~isValidPosition(grid, toX, toY)
    THEN [grid |-> grid, ok |-> FALSE]
    ELSE LET entity == getEntity(grid, fromX, fromY)
         IN  IF entity = Null
             THEN [grid |-> grid, ok |-> FALSE]
             ELSE LET g1 == setEntity(grid, fromX, fromY, Null).grid
                      g2 == setEntity(g1, toX, toY, entity).grid
                  IN  [grid |-> [g2 EXCEPT !.cells[<<toX, toY>>] =
                                     setPosition(@, toX, toY)],
                       ok |-> TRUE]

\* moveEntity: the grid after the call and the boolean it returns.
moveEntity(grid, fromX, fromY, toX, toY) ==
    IF ~isValidPosition(grid, fromX, fromY) \/ ~isValidPosition(grid, toX, toY)
    THEN [grid |-> grid, ok |-> FALSE]
    ELSE LET entity == getEntity(grid, fromX, fromY)
             targetEntity == getEntity(grid, toX, toY)
         IN  IF entity = Null
             THEN [grid |-> grid, ok |-> FALSE]
             ELSE IF targetEntity # Null /\ targetEntity.solid
             THEN [grid |-> grid, ok |-> FALSE]
             ELSE LET g1 == setEntity(grid, fromX, fromY, Null).grid
                      g2 == setEntity(g1, toX, toY, entity).grid
                  IN  [grid |-> [g2 EXCEPT !.cells[<<toX, toY>>] =
                                     setPosition(@, toX, toY)],
                       ok |-> TRUE]

\* removeEntity taking the nearest cell of the grid for a cell outside it.
removeEntityNearest(grid, x, y) ==
    LET nx == IF x < 0 THEN 0 ELSE IF x >= grid.width THEN grid.width - 1 ELSE x
        ny == IF y < 0 THEN 0 ELSE IF y >= grid.height THEN grid.height - 1 ELSE y
    IN  [grid |-> setEntity(grid, nx, ny, Null).grid,
         entity |-> getEntity(grid, nx, ny)]

\* removeEntity: the grid after the call and the entity it returns.
removeEntity(grid, x, y) ==
    IF ~isValidPosition(grid, x, y)
    THEN [grid |-> grid, entity |-> Null]
    ELSE [grid |-> setEntity(grid, x, y, Null).grid,
          entity |-> getEntity(grid, x, y)]

\* The cells in findEntityByType's scan order (rows top to bottom, columns
\* left to right), as a sequence.
ScanOrder(grid) ==
    [i \in 1 .. grid.width * grid.height |->
        <<(i - 1) % grid.width, (i - 1) \div grid.width>>]

\* findEntityByType: the cell of the first entity of the type in scan order,
\* or <<-1, -1>> when there is none (the code returns the object or null).
NoCell == <<-1, -1>>
findCellByType(grid, entityType) ==
    LET order == ScanOrder(grid)
        hits == {i \in DOMAIN order : grid.cells[order[i]] # Null
                                       /\ grid.cells[order[i]].type = entityType}
    IN  IF hits = {} THEN NoCell
        ELSE order[CHOOSE i \in hits : \A j \in hits : i <= j]

findEntityByType(grid, entityType) ==
    LET c == findCellByType(grid, entityType)
    IN  IF c = NoCell THEN Null ELSE grid.cells[c]

\* findAllEntitiesByType, as a set of cells.
findAllCellsByType(grid, entityType) ==
    {p \in DOMAIN grid.cells : grid.cells[p] # Null /\ grid.cells[p].type = entityType}

(***************************************************************************)
(* Level (game/core/Level.ts)                                              *)
(***************************************************************************)

\* A layout is a sequence of rows, a row a sequence of one-character strings.
RECURSIVE MaxRowLength(_)
MaxRowLength(layout) ==
    IF layout = <<>> THEN 0
    ELSE LET rest == MaxRowLength(Tail(layout))
         IN  IF Len(Head(layout)) > rest THEN Len(Head(layout)) ELSE rest

\* createEntityFromChar making a Wall of every other character.
createEntityFromCharWalled(char, id, x, y, diamondsRequired) ==
    CASE char = "@" -> Player(id, x, y)
      [] char = "#" -> Wall(id, x, y)
      [] char = "." -> Dirt(id, x, y)
      [] char = "*" -> Diamond(id, x, y, DiamondPoints)
      [] char = "O" -> Boulder(id, x, y)
      [] char = "E" -> Exit(id, x, y, diamondsRequired)
      [] char = " " -> Null
      [] OTHER -> Wall(id, x, y)

\* Level.createEntityFromChar.  The object created for cell (x,y) gets the
\* identity id.
createEntityFromChar(char, id, x, y, diamondsRequired) ==
    CASE char = "@" -> Player(id, x, y)
      [] char = "#" -> Wall(id, x, y)
      [] char = "." -> Dirt(id, x, y)
      [] char = "*" -> Diamond(id, x, y, DiamondPoints)
      [] char = "O" -> Boulder(id, x, y)
      [] char = "E" -> Exit(id, x, y, diamondsRequired)
      [] OTHER -> Null

\* Level.loadLayout: each cell of the new grid is written at most once, by
\* setEntity with the entity created for that cell.
loadLayout(grid, layout, diamondsRequired) ==
    [grid EXCEPT !.cells =
        [p \in DOMAIN grid.cells |->
            LET x == p[1]
                y == p[2]
                row == layout[y + 1]
            IN  IF x + 1 <= Len(row)
                THEN LET entity == createEntityFromChar(row[x + 1],
                                       y * grid.width + x + 1, x, y, diamondsRequired)
                     IN  IF entity # Null THEN setPosition(entity, x, y) ELSE Null
                ELSE Null]]

\* Level constructor.
Level(levelData) ==
    LET height == Len(levelData.layout)
        width == IF Len(levelData.layout) > 0 THEN MaxRowLength(levelData.layout) ELSE 0
    IN  [grid |-> loadLayout(GameGrid(width, height), levelData.layout,
                             levelData.diamondsRequired),
         name |-> levelData.name,
         diamondsRequired |-> levelData.diamondsRequired,
         timeLimit |-> levelData.timeLimit]

(***************************************************************************)
(* GameLogic (engine/GameLogic.ts)                                         *)
(***************************************************************************)

\* GameLogic.getDirectionVector
getDirectionVector(direction) ==
    CASE direction = UP -> [dx |-> 0, dy |-> -1]
      [] direction = DOWN -> [dx |-> 0, dy |-> 1]
      [] direction = LEFT -> [dx |-> -1, dy |-> 0]
      [] direction = RIGHT -> [dx |-> 1, dy |-> 0]

\* MovementResult with the optional fields at their falsy values.
MovementResult(grid, success) ==
    [grid |-> grid, success |-> success, diamondCollected |-> FALSE,
     playerDied |-> FALSE, levelComplete |-> FALSE, scoreChange |-> 0]

\* GameLogic.executePlayerMove: moves whatever the grid holds at the player's
\* stored position.
executePlayerMove(grid, player, newX, newY) ==
    LET r == moveEntity(grid, player.x, player.y, newX, newY)
    IN  MovementResult(r.grid, r.ok)

\* GameLogic.handleDirtMovement
handleDirtMovement(grid, player, newX, newY) ==
    LET g1 == [grid EXCEPT !.cells[<<newX, newY>>] = dig(@)]
    IN  executePlayerMove(g1, player, newX, newY)

\* GameLogic.handleDiamondCollection; playerCell is the cell that references
\* the player object.
handleDiamondCollection(grid, playerCell, diamond, newX, newY) ==
    LET g1 == [grid EXCEPT !.cells[playerCell] = collectDiamond(@)]
        g2 == removeEntity(g1, newX, newY).grid
        moveResult == executePlayerMove(g2, g1.cells[playerCell], newX, newY)
    IN  [moveResult EXCEPT !.diamondCollected = TRUE,
                           !.scoreChange = diamond.points]

\* handleBoulderPush pushing onto every cell that holds no solid entity.
handleBoulderPushOntoSoft(grid, player, newX, newY, direction) ==
    IF direction = UP \/ direction = DOWN
    THEN MovementResult(grid, FALSE)
    ELSE LET v == getDirectionVector(direction)
             boulderNewX == newX + v.dx
             boulderNewY == newY + v.dy
         IN  IF ~isValidPosition(grid, boulderNewX, boulderNewY)
             THEN MovementResult(grid, FALSE)
             ELSE LET boulderMoved == moveEntity(grid, newX, newY,
                                                 boulderNewX, boulderNewY)
                  IN  IF ~boulderMoved.ok
                      THEN MovementResult(grid, FALSE)
                      ELSE executePlayerMove(boulderMoved.grid, player, newX, newY)

\* GameLogic.handleBoulderPush
handleBoulderPush(grid, player, newX, newY, direction) ==
    IF direction = UP \/ direction = DOWN
    THEN MovementResult(grid, FALSE)
    ELSE LET v == getDirectionVector(direction)
             boulderNewX == newX + v.dx
             boulderNewY == newY + v.dy
         IN  IF ~isValidPosition(grid, boulderNewX, boulderNewY)
             THEN MovementResult(grid, FALSE)
             ELSE IF getEntity(grid, boulderNewX, boulderNewY) # Null
             THEN MovementResult(grid, FALSE)
             ELSE LET boulderMoved == moveEntity(grid, newX, newY,
                                                 boulderNewX, boulderNewY)
                  IN  IF ~boulderMoved.ok
                      THEN MovementResult(grid, FALSE)
                      ELSE executePlayerMove(boulderMoved.grid, player, newX, newY)

\* handleExitMovement without the check of the diamond count.
handleExitMovementUnchecked(grid, playerCell, exit, newX, newY) ==
    IF exit.solid
    THEN MovementResult(grid, FALSE)
    ELSE [MovementResult([grid EXCEPT !.cells[playerCell] =
                              setPosition(@, newX, newY)], TRUE)
            EXCEPT !.levelComplete = TRUE]

\* handleExitMovement storing the cell one step beyond the exit.
handleExitMovementBeyond(grid, playerCell, exit, newX, newY) ==
    LET player == grid.cells[playerCell]
        diamondsRequired == exit.diamondsRequired
    IN  IF player.diamondsCollected < diamondsRequired
        THEN MovementResult(grid, FALSE)
        ELSE IF exit.solid
        THEN MovementResult(grid, FALSE)
        ELSE [MovementResult([grid EXCEPT !.cells[playerCell] =
                                  setPosition(@, newX + (newX - player.x),
                                                 newY + (newY - player.y))], TRUE)
                EXCEPT !.levelComplete = TRUE]

\* GameLogic.handleExitMovement: only the player object's stored position
\* changes; the grid's cells are left as they are.
handleExitMovement(grid, playerCell, exit, newX, newY) ==
    LET player == grid.cells[playerCell]
        diamondsRequired == exit.diamondsRequired
    IN  IF player.diamondsCollected < diamondsRequired
        THEN MovementResult(grid, FALSE)
        ELSE IF exit.solid
        THEN MovementResult(grid, FALSE)
        ELSE [MovementResult([grid EXCEPT !.cells[playerCell] =
                                  setPosition(@, newX, newY)], TRUE)
                EXCEPT !.levelComplete = TRUE]

\* GameLogic.movePlayer
movePlayer(grid, direction) ==
    LET playerCell == findCellByType(grid, PLAYER)
    IN  IF playerCell = NoCell \/ ~grid.cells[playerCell].alive
        THEN MovementResult(grid, FALSE)
        ELSE
        LET player == grid.cells[playerCell]
            v == getDirectionVector(direction)
            newX == player.x + v.dx
            newY == player.y + v.dy
        IN  IF ~isValidPosition(grid, newX, newY)
            THEN MovementResult(grid, FALSE)
            ELSE
            LET targetEntity == getEntity(grid, newX, newY)
            IN  IF targetEntity = Null
                THEN executePlayerMove(grid, player, newX, newY)
                ELSE CASE targetEntity.type = DIRT ->
                            handleDirtMovement(grid, player, newX, newY)
                       [] targetEntity.type = DIAMOND ->
                            handleDiamondCollection(grid, playerCell, targetEntity,
                                                    newX, newY)
                       [] targetEntity.type = BOULDER ->
                            handleBoulderPush(grid, player, newX, newY, direction)
                       [] targetEntity.type = WALL ->
                            MovementResult(grid, FALSE)
                       [] targetEntity.type = EXIT ->
                            handleExitMovement(grid, playerCell, targetEntity,
                                               newX, newY)
                       [] OTHER -> MovementResult(grid, FALSE)

(***************************************************************************)
(* MovementSystem (game/core/MovementSystem.ts), the resolver of the       *)
(* GameController; canMove is its pre-validation of a move.                *)
(***************************************************************************)

\* MovementSystem.handleBoulderPush: pushes in every direction.
movementSystemHandleBoulderPush(grid, player, newX, newY, direction) ==
    LET v == getDirectionVector(direction)
        boulderNewX == newX + v.dx
        boulderNewY == newY + v.dy
    IN  IF ~isValidPosition(grid, boulderNewX, boulderNewY)
        THEN MovementResult(grid, FALSE)
        ELSE IF getEntity(grid, boulderNewX, boulderNewY) # Null
        THEN MovementResult(grid, FALSE)
        ELSE LET boulderMoved == moveEntity(grid, newX, newY,
                                            boulderNewX, boulderNewY)
             IN  IF ~boulderMoved.ok
                 THEN MovementResult(grid, FALSE)
                 ELSE executePlayerMove(boulderMoved.grid, player, newX, newY)

\* MovementSystem.handleExitMovement: stores the exit's cell in the player
\* object and clears the cell at the player's former stored position; the
\* player object is then referenced by the grid only if its cell was
\* another one.
movementSystemHandleExitMovement(grid, playerCell, exit, newX, newY) ==
    LET player == grid.cells[playerCell]
    IN  IF player.diamondsCollected < exit.diamondsRequired
        THEN MovementResult(grid, FALSE)
        ELSE IF exit.solid
        THEN MovementResult(grid, FALSE)
        ELSE MovementResult(
                 setEntity([grid EXCEPT !.cells[playerCell] =
                                setPosition(@, newX, newY)],
                           player.x, player.y, Null).grid,
                 TRUE)

\* MovementSystem.movePlayer
movementSystemMovePlayer(grid, direction) ==
    LET playerCell == findCellByType(grid, PLAYER)
    IN  IF playerCell = NoCell \/ ~grid.cells[playerCell].alive
        THEN MovementResult(grid, FALSE)
        ELSE
        LET player == grid.cells[playerCell]
            v == getDirectionVector(direction)
            newX == player.x + v.dx
            newY == player.y + v.dy
        IN  IF ~isValidPosition(grid, newX, newY)
            THEN MovementResult(grid, FALSE)
            ELSE
            LET targetEntity == getEntity(grid, newX, newY)
            IN  IF targetEntity = Null
                THEN executePlayerMove(grid, player, newX, newY)
                ELSE CASE targetEntity.type = DIRT ->
                            handleDirtMovement(grid, player, newX, newY)
                       [] targetEntity.type = DIAMOND ->
                            [handleDiamondCollection(grid, playerCell,
                                 targetEntity, newX, newY)
                               EXCEPT !.scoreChange = 0]
                       [] targetEntity.type = BOULDER ->
                            movementSystemHandleBoulderPush(grid, player,
                                newX, newY, direction)
                       [] targetEntity.type = WALL ->
                            MovementResult(grid, FALSE)
                       [] targetEntity.type = EXIT ->
                            movementSystemHandleExitMovement(grid, playerCell,
                                targetEntity, newX, newY)
                       [] OTHER -> MovementResult(grid, FALSE)

\* MovementSystem.canMove
canMove(grid, direction) ==
    LET playerCell == findCellByType(grid, PLAYER)
    IN  IF playerCell = NoCell \/ ~grid.cells[playerCell].alive
        THEN FALSE
        ELSE
        LET player == grid.cells[playerCell]
            v == getDirectionVector(direction)
            newX == player.x + v.dx
            newY == player.y + v.dy
        IN  IF ~isValidPosition(grid, newX, newY)
            THEN FALSE
            ELSE
            LET targetEntity == getEntity(grid, newX, newY)
            IN  IF targetEntity = Null
                THEN TRUE
                ELSE CASE targetEntity.type \in {DIRT, DIAMOND} -> TRUE
                       [] targetEntity.type = BOULDER ->
                            LET boulderNewX == newX + v.dx
                                boulderNewY == newY + v.dy
                                boulderTarget == getEntity(grid, boulderNewX,
                                                           boulderNewY)
                            IN  IF ~isValidPosition(grid, boulderNewX, boulderNewY)
                                THEN FALSE
                                ELSE boulderTarget = Null \/ ~boulderTarget.solid
                       [] targetEntity.type = EXIT ->
                            player.diamondsCollected >= targetEntity.diamondsRequired
                       [] OTHER -> FALSE

\* Result of the private physics helpers.
PhysicsStep(grid, moved, playerKilled) ==
    [grid |-> grid, moved |-> moved, playerKilled |-> playerKilled]

\* tryMoveBoulderDown killing the player below whether or not the boulder
\* was falling.
tryMoveBoulderDownAnyKills(grid, x, y) ==
    LET belowY == y + 1
        entityBelow == getEntity(grid, x, belowY)
    IN  IF ~isValidPosition(grid, x, belowY)
        THEN PhysicsStep([grid EXCEPT !.cells[<<x, y>>] = stopFalling(@)],
                         FALSE, FALSE)
        ELSE IF entityBelow = Null
        THEN LET g1 == [grid EXCEPT !.cells[<<x, y>>] = startFalling(@)]
                 r == moveEntity(g1, x, y, x, belowY)
             IN  PhysicsStep(r.grid, r.ok, FALSE)
        ELSE IF entityBelow.type = PLAYER
        THEN PhysicsStep([grid EXCEPT !.cells[<<x, belowY>>].alive = FALSE],
                         FALSE, TRUE)
        ELSE PhysicsStep([grid EXCEPT !.cells[<<x, y>>] = stopFalling(@)],
                         FALSE, FALSE)

\* GameLogic.tryMoveBoulderDown, for the boulder the grid holds at (x,y).
tryMoveBoulderDown(grid, x, y) ==
    LET belowY == y + 1
        boulder == grid.cells[<<x, y>>]
        entityBelow == getEntity(grid, x, belowY)
    IN  IF ~isValidPosition(grid, x, belowY)
        THEN PhysicsStep([grid EXCEPT !.cells[<<x, y>>] = stopFalling(@)],
                         FALSE, FALSE)
        ELSE IF entityBelow = Null
        THEN LET g1 == [grid EXCEPT !.cells[<<x, y>>] = startFalling(@)]
                 r == moveEntity(g1, x, y, x, belowY)
             IN  PhysicsStep(r.grid, r.ok, FALSE)
        ELSE IF entityBelow.type = PLAYER /\ boulder.falling
        THEN PhysicsStep([grid EXCEPT !.cells[<<x, belowY>>].alive = FALSE],
                         FALSE, TRUE)
        ELSE PhysicsStep([grid EXCEPT !.cells[<<x, y>>] = stopFalling(@)],
                         FALSE, FALSE)

\* GameLogic.tryMoveDiamondDown, for the diamond the grid holds at (x,y).
tryMoveDiamondDown(grid, x, y) ==
    LET belowY == y + 1
        diamond == grid.cells[<<x, y>>]
        entityBelow == getEntity(grid, x, belowY)
    IN  IF ~isValidPosition(grid, x, belowY)
        THEN PhysicsStep([grid EXCEPT !.cells[<<x, y>>] = stopFalling(@)],
                         FALSE, FALSE)
        ELSE IF entityBelow = Null
        THEN LET g1 == [grid EXCEPT !.cells[<<x, y>>] = startFalling(@)]
                 r == moveEntity(g1, x, y, x, belowY)
             IN  PhysicsStep(r.grid, r.ok, FALSE)
        ELSE IF entityBelow.type = PLAYER /\ diamond.falling
        THEN PhysicsStep([grid EXCEPT !.cells[<<x, belowY>>].alive = FALSE],
                         FALSE, TRUE)
        ELSE PhysicsStep([grid EXCEPT !.cells[<<x, y>>] = stopFalling(@)],
                         FALSE, FALSE)

\* tryRollDirection not looking at the side cell.
tryRollDirectionPastSide(grid, x, y, direction) ==
    LET sideX == x + direction
        diagonalY == y + 1
        diagonalX == x + direction
    IN  IF ~isValidPosition(grid, sideX, y) \/ ~isValidPosition(grid, diagonalX, diagonalY)
        THEN PhysicsStep(grid, FALSE, FALSE)
        ELSE IF getEntity(grid, diagonalX, diagonalY) # Null
        THEN PhysicsStep(grid, FALSE, FALSE)
        ELSE LET r == moveEntity(grid, x, y, diagonalX, diagonalY)
             IN  IF r.ok
                 THEN PhysicsStep(
                        [r.grid EXCEPT !.cells[<<diagonalX, diagonalY>>] =
                            IF @.type = BOULDER \/ @.type = DIAMOND
                            THEN startFalling(@) ELSE @],
                        TRUE, FALSE)
                 ELSE PhysicsStep(r.grid, FALSE, FALSE)

\* GameLogic.tryRollDirection (direction: 1 right, -1 left)
tryRollDirection(grid, x, y, direction) ==
    LET sideX == x + direction
        diagonalY == y + 1
        diagonalX == x + direction
    IN  IF ~isValidPosition(grid, sideX, y) \/ ~isValidPosition(grid, diagonalX, diagonalY)
        THEN PhysicsStep(grid, FALSE, FALSE)
        ELSE IF getEntity(grid, sideX, y) # Null
        THEN PhysicsStep(grid, FALSE, FALSE)
        ELSE IF getEntity(grid, diagonalX, diagonalY) # Null
        THEN PhysicsStep(grid, FALSE, FALSE)
        ELSE LET r == moveEntity(grid, x, y, diagonalX, diagonalY)
             IN  IF r.ok
                 THEN PhysicsStep(
                        [r.grid EXCEPT !.cells[<<diagonalX, diagonalY>>] =
                            IF @.type = BOULDER \/ @.type = DIAMOND
                            THEN startFalling(@) ELSE @],
                        TRUE, FALSE)
                 ELSE PhysicsStep(r.grid, FALSE, FALSE)

\* tryRolling trying the left before the right.
tryRollingLeftFirst(grid, x, y) ==
    LET belowY == y + 1
        entityBelow == getEntity(grid, x, belowY)
    IN  IF ~isValidPosition(grid, x, belowY)
        THEN PhysicsStep(grid, FALSE, FALSE)
        ELSE IF entityBelow = Null
        THEN PhysicsStep(grid, FALSE, FALSE)
        ELSE LET isBottomRollable == (entityBelow.type = BOULDER
                                      \/ entityBelow.type = DIAMOND)
                 isBottomFalling == entityBelow.falling
             IN  IF ~isBottomRollable \/ isBottomFalling
                 THEN PhysicsStep(grid, FALSE, FALSE)
                 ELSE LET rollResult == tryRollDirection(grid, x, y, -1)
                      IN  IF rollResult.moved THEN rollResult
                          ELSE tryRollDirection(grid, x, y, 1)

\* GameLogic.tryRolling
tryRolling(grid, x, y) ==
    LET belowY == y + 1
        entityBelow == getEntity(grid, x, belowY)
    IN  IF ~isValidPosition(grid, x, belowY)
        THEN PhysicsStep(grid, FALSE, FALSE)
        ELSE IF entityBelow = Null
        THEN PhysicsStep(grid, FALSE, FALSE)
        ELSE LET isBottomRollable == (entityBelow.type = BOULDER
                                      \/ entityBelow.type = DIAMOND)
                 isBottomFalling == entityBelow.falling
             IN  IF ~isBottomRollable \/ isBottomFalling
                 THEN PhysicsStep(grid, FALSE, FALSE)
                 ELSE LET rollResult == tryRollDirection(grid, x, y, 1)
                      IN  IF rollResult.moved THEN rollResult
                          ELSE tryRollDirection(grid, x, y, -1)

\* The cells of the loops visited from the top row down.
PhysicsOrderTopDown(grid) ==
    IF grid.height < 2 THEN <<>>
    ELSE [i \in 1 .. grid.width * (grid.height - 1) |->
            <<(i - 1) % grid.width, (i - 1) \div grid.width>>]

\* The cells in the order the two loops of updatePhysics visit them: rows
\* from height - 2 up to 0, columns left to right.
PhysicsOrder(grid) ==
    IF grid.height < 2 THEN <<>>
    ELSE [i \in 1 .. grid.width * (grid.height - 1) |->
            <<(i - 1) % grid.width, grid.height - 2 - ((i - 1) \div grid.width)>>]

\* PhysicsResult reporting a move whatever happened.
PhysicsResultMoved(grid, entityMoved, playerDied) ==
    [grid |-> grid, entityMoved |-> TRUE, playerDied |-> playerDied]

\* PhysicsResult, with the grid the call leaves.
PhysicsResult(grid, entityMoved, playerDied) ==
    [grid |-> grid, entityMoved |-> entityMoved, playerDied |-> playerDied]

\* Body of the first loop of updatePhysics for one cell.
GravityStep(st, x, y) ==
    LET entity == getEntity(st.grid, x, y)
    IN  IF entity # Null /\ (entity.type = BOULDER \/ entity.type = DIAMOND)
        THEN LET moveResult == IF entity.type = BOULDER
                                THEN tryMoveBoulderDown(st.grid, x, y)
                                ELSE tryMoveDiamondDown(st.grid, x, y)
                 belowY == y + 1
                 g1 == IF ~moveResult.moved
                          /\ isValidPosition(moveResult.grid, x, belowY)
                          /\ getEntity(moveResult.grid, x, belowY) # Null
                          /\ moveResult.grid.cells[<<x, y>>].falling
                       THEN [moveResult.grid EXCEPT !.cells[<<x, y>>] = stopFalling(@)]
                       ELSE moveResult.grid
             IN  PhysicsResult(g1, st.entityMoved \/ moveResult.moved,
                               st.playerDied \/ moveResult.playerKilled)
        ELSE st

\* Body of the second loop of updatePhysics for one cell.
RollingStep(st, x, y) ==
    LET entity == getEntity(st.grid, x, y)
    IN  IF entity # Null /\ (entity.type = BOULDER \/ entity.type = DIAMOND)
        THEN LET rollResult == tryRolling(st.grid, x, y)
             IN  PhysicsResult(rollResult.grid, st.entityMoved \/ rollResult.moved,
                               st.playerDied \/ rollResult.playerKilled)
        ELSE st

\* First loop of updatePhysics from the i-th cell of the order on.
RECURSIVE GravityPass(_, _, _)
GravityPass(st, order, i) ==
    IF i > Len(order) THEN st
    ELSE GravityPass(GravityStep(st, order[i][1], order[i][2]), order, i + 1)

\* Second loop of updatePhysics from the i-th cell of the order on.
RECURSIVE RollingPass(_, _, _)
RollingPass(st, order, i) ==
    IF i > Len(order) THEN st
    ELSE RollingPass(RollingStep(st, order[i][1], order[i][2]), order, i + 1)

\* GameLogic.updatePhysics
updatePhysics(grid) ==
    LET order == PhysicsOrder(grid)
        afterGravity == GravityPass(PhysicsResult(grid, FALSE, FALSE), order, 1)
    IN  RollingPass(afterGravity, order, 1)

\* checkLevelComplete without the comparison of the positions.
checkLevelCompleteAnywhere(grid) ==
    LET player == findEntityByType(grid, PLAYER)
        exit == findEntityByType(grid, EXIT)
    IN  IF player = Null \/ exit = Null
        THEN FALSE
        ELSE player.diamondsCollected >= exit.diamondsRequired /\ exit.isOpen

\* GameLogic.checkLevelComplete
checkLevelComplete(grid) ==
    LET player == findEntityByType(grid, PLAYER)
        exit == findEntityByType(grid, EXIT)
    IN  IF player = Null \/ exit = Null
        THEN FALSE
        ELSE LET playerAtExit == (player.x = exit.x /\ player.y = exit.y)
                 hasEnoughDiamonds == (player.diamondsCollected >= exit.diamondsRequired)
             IN  playerAtExit /\ hasEnoughDiamonds /\ exit.isOpen

(***************************************************************************)
(* GameEngine (engine/GameEngine.ts)                                       *)
(*                                                                         *)
(* The private methods are operators on a record e with the fields         *)
(*   state   the GameState (this.state),                                   *)
(*   events  the types of the events emitted so far by the running call,   *)
(*   log     what the running call observed on its way (the results the    *)
(*           resolvers returned, the state at the end of processTurn,      *)
(*           whether a new Level was built, the state at each emission of  *)
(*           LEVEL_COMPLETE).                                              *)
(* Date.now() is the parameter now: one call reads one clock value.        *)
(* Times are in milliseconds.  timeRemaining and deltaTime are in units of *)
(* 1/TimeUnitsPerSecond seconds; turnProgress is kept as the number of     *)
(* milliseconds min(timeSinceLastTurn, TURN_DURATION_MS), so that 1.0 is   *)
(* TURN_DURATION_MS.                                                       *)
(***************************************************************************)

TURN_DURATION_MS == 200

\* Initial number of lives (constructor, resetGame).
InitialLives == 3

\* Resolution of timeRemaining and deltaTime.
TimeUnitsPerSecond == 2

\* A value that is absent.
None == [none |-> TRUE]

NoLog == [turn |-> FALSE, action |-> NoDirection, move |-> None, phys |-> None,
          afterTurn |-> None, rebuilt |-> FALSE,
               completeAt |-> <<>>, calls |-> <<>>]

Min(a, b) == IF a <= b THEN a ELSE b

\* Math.floor of a time in seconds, given in time units.
Floor(t) == t \div TimeUnitsPerSecond

\* Level.getTimeLimit, in time units.
getTimeLimit(level) == level.timeLimit * TimeUnitsPerSecond

\* GameEngine constructor
GameEngine(initialLevel, levelData, now) ==
    [level |-> initialLevel,
     levelData |-> levelData,
     score |-> 0,
     lives |-> InitialLives,
     timeRemaining |-> getTimeLimit(initialLevel),
     isPlaying |-> TRUE,
     isPaused |-> FALSE,
     currentTurn |-> 0,
     lastTurnTime |-> now,
     turnProgress |-> 0,
     currentlyPressedDirection |-> NoDirection,
     lastPressedDirection |-> NoDirection,
     lastPressTime |-> 0,
     eventListeners |-> <<>>]

\* The listeners the registry (a Map from event type to an array of
\* callbacks) holds for an event type.
Listeners(eventListeners, type) ==
    IF type \in DOMAIN eventListeners THEN eventListeners[type] ELSE <<>>

\* GameEngine.emitEvent: the event is recorded, and each listener of its
\* type is invoked with it, in the array's order.
emitEvent(e, type) ==
    [e EXCEPT !.events = Append(@, type),
              !.log.completeAt = IF type = "LEVEL_COMPLETE"
                                 THEN Append(@, e.state) ELSE @,
              !.log.calls = @ \o [i \in 1 .. Len(Listeners(e.state.eventListeners, type))
                                    |-> <<Listeners(e.state.eventListeners, type)[i], type>>]]

\* GameEngine.addEventListener
addEventListener(e, eventType, listener) ==
    [e EXCEPT !.state.eventListeners =
        [t \in DOMAIN @ \cup {eventType} |->
            IF t = eventType THEN Append(Listeners(@, t), listener) ELSE @[t]]]

\* indexOf: the first index of listener in the array, 0 for none (-1 in the
\* code, whose arrays start at 0).
indexOf(listeners, listener) ==
    IF \E i \in 1 .. Len(listeners) : listeners[i] = listener
    THEN CHOOSE i \in 1 .. Len(listeners) :
            /\ listeners[i] = listener
            /\ \A j \in 1 .. i - 1 : listeners[j] # listener
    ELSE 0

\* splice(index, 1)
splice(listeners, index) ==
    [i \in 1 .. Len(listeners) - 1 |->
        IF i < index THEN listeners[i] ELSE listeners[i + 1]]

\* removeEventListener removing every occurrence of the listener.
removeEventListenerAll(e, eventType, listener) ==
    IF eventType \notin DOMAIN e.state.eventListeners
    THEN e
    ELSE [e EXCEPT !.state.eventListeners[eventType] =
             SelectSeq(@, LAMBDA l : l # listener)]

\* GameEngine.removeEventListener
removeEventListener(e, eventType, listener) ==
    IF eventType \notin DOMAIN e.state.eventListeners
    THEN e
    ELSE IF indexOf(e.state.eventListeners[eventType], listener) > 0
    THEN [e EXCEPT !.state.eventListeners[eventType] =
             splice(@, indexOf(@, listener))]
    ELSE e

\* GameEngine.destroy
destroy(e) ==
    [e EXCEPT !.state.eventListeners = <<>>, !.state.isPlaying = FALSE]

\* GameEngine.resetAllEntityAnimations
resetAllEntityAnimations(e) ==
    [e EXCEPT !.state.level.grid.cells =
        [p \in DOMAIN @ |-> IF @[p] # Null THEN resetAnimation(@[p]) ELSE Null]]

\* determinePlayerAction preferring the last press to the held direction.
determinePlayerActionPressFirst(state, now) ==
    IF state.lastPressedDirection # NoDirection
       /\ (now - state.lastPressTime) <= TURN_DURATION_MS
    THEN state.lastPressedDirection
    ELSE IF state.currentlyPressedDirection # NoDirection
    THEN state.currentlyPressedDirection
    ELSE NoDirection

\* GameEngine.determinePlayerAction
determinePlayerAction(state, now) ==
    IF state.currentlyPressedDirection # NoDirection
    THEN state.currentlyPressedDirection
    ELSE IF state.lastPressedDirection # NoDirection
            /\ (now - state.lastPressTime) <= TURN_DURATION_MS
    THEN state.lastPressedDirection
    ELSE NoDirection

\* handlePlayerDeath keeping the level the player died in.
handlePlayerDeathKeepsLevel(e) ==
    LET e1 == emitEvent([e EXCEPT !.state.lives = @ - 1], "PLAYER_DIED")
    IN  IF e1.state.lives <= 0
        THEN emitEvent([e1 EXCEPT !.state.isPlaying = FALSE], "GAME_OVER")
        ELSE [e1 EXCEPT !.state.isPlaying = TRUE]

\* GameEngine.handlePlayerDeath
handlePlayerDeath(e) ==
    LET e1 == emitEvent([e EXCEPT !.state.lives = @ - 1], "PLAYER_DIED")
    IN  IF e1.state.lives <= 0
        THEN emitEvent([e1 EXCEPT !.state.isPlaying = FALSE], "GAME_OVER")
        ELSE [e1 EXCEPT !.state.level = Level(e1.state.levelData),
                        !.state.isPlaying = TRUE,
                        !.log.rebuilt = TRUE]

\* GameEngine.processMovement, from the result of GameLogic.movePlayer on.
applyMovementResult(e, result) ==
    LET e0 == [e EXCEPT !.state.level.grid = result.grid, !.log.move = result]
        e1 == IF result.success /\ result.diamondCollected
              THEN LET scored == emitEvent(
                           [e0 EXCEPT !.state.score =
                               @ + (IF result.scoreChange # 0
                                    THEN result.scoreChange ELSE 10)],
                           "DIAMOND_COLLECTED")
                       grid == result.grid
                       playerCell == findCellByType(grid, PLAYER)
                       exitCell == findCellByType(grid, EXIT)
                   IN  IF playerCell # NoCell /\ exitCell # NoCell
                       THEN [scored EXCEPT !.state.level.grid.cells[exitCell] =
                               checkOpenCondition(@,
                                   grid.cells[playerCell].diamondsCollected)]
                       ELSE scored
              ELSE e0
        e2 == IF result.success /\ result.levelComplete
              THEN emitEvent([e1 EXCEPT !.state.isPlaying = FALSE], "LEVEL_COMPLETE")
              ELSE e1
    IN  IF result.success /\ result.playerDied THEN handlePlayerDeath(e2) ELSE e2

\* GameEngine.processMovement
processMovement(e, direction) ==
    applyMovementResult(e, movePlayer(e.state.level.grid, direction))

\* GameEngine.updatePhysics, from the result of GameLogic.updatePhysics on.
applyPhysicsResult(e, result) ==
    LET e1 == [e EXCEPT !.state.level.grid = result.grid, !.log.phys = result]
    IN  IF result.playerDied THEN handlePlayerDeath(e1) ELSE e1

\* GameEngine.updatePhysics
engineUpdatePhysics(e) ==
    applyPhysicsResult(e, updatePhysics(e.state.level.grid))

\* GameEngine.checkGameConditions, the game over check.
checkGameOver(e) ==
    IF e.state.lives <= 0
    THEN emitEvent([e EXCEPT !.state.isPlaying = FALSE], "GAME_OVER")
    ELSE e

\* GameEngine.checkGameConditions
checkGameConditions(e) ==
    checkGameOver(IF checkLevelComplete(e.state.level.grid)
                  THEN emitEvent([e EXCEPT !.state.isPlaying = FALSE],
                                 "LEVEL_COMPLETE")
                  ELSE e)

\* GameEngine.processTurn, the player's action of the turn.
playerTurn(e, now) ==
    LET playerAction == determinePlayerAction(e.state, now)
    IN  [(IF playerAction # NoDirection
          THEN processMovement(e, playerAction) ELSE e)
            EXCEPT !.log.action = playerAction]

\* GameEngine.processTurn, the clearing of old input that ends the turn.
clearOldInput(e, now) ==
    LET e5 == IF now - e.state.lastPressTime > TURN_DURATION_MS
              THEN [e EXCEPT !.state.lastPressedDirection = NoDirection]
              ELSE e
    IN  [e5 EXCEPT !.log.turn = TRUE, !.log.afterTurn = e5.state]

\* processTurn running the physics before the player's action.
processTurnPhysicsFirst(e, now) ==
    clearOldInput(
        checkGameConditions(
            playerTurn(
                engineUpdatePhysics(resetAllEntityAnimations(e)), now)),
        now)

\* GameEngine.processTurn
processTurn(e, now) ==
    clearOldInput(
        checkGameConditions(
            engineUpdatePhysics(
                playerTurn(resetAllEntityAnimations(e), now))),
        now)

\* handleTimeUp leaving the countdown where it is.
handleTimeUpKeepsTime(e) ==
    LET e1 == [e EXCEPT !.state.lives = @ - 1]
    IN  IF e1.state.lives > 0
        THEN emitEvent(e1, "LIFE_LOST")
        ELSE emitEvent([e1 EXCEPT !.state.isPlaying = FALSE], "GAME_OVER")

\* GameEngine.handleTimeUp
handleTimeUp(e) ==
    LET e1 == [e EXCEPT !.state.lives = @ - 1]
    IN  IF e1.state.lives > 0
        THEN emitEvent([e1 EXCEPT !.state.timeRemaining = getTimeLimit(e1.state.level)],
                       "LIFE_LOST")
        ELSE emitEvent([e1 EXCEPT !.state.isPlaying = FALSE], "GAME_OVER")

\* updateTurn executing a turn in every call.
updateTurnEveryCall(e, now) ==
    [processTurn(e, now) EXCEPT
        !.state.lastTurnTime = now,
        !.state.currentTurn = @ + 1,
        !.state.turnProgress = 0]

\* GameEngine.update, the turn part.
updateTurn(e, now) ==
    LET timeSinceLastTurn == now - e.state.lastTurnTime
        e1 == [e EXCEPT !.state.turnProgress =
                           Min(timeSinceLastTurn, TURN_DURATION_MS)]
    IN  IF timeSinceLastTurn >= TURN_DURATION_MS
        THEN [processTurn(e1, now) EXCEPT
                 !.state.lastTurnTime = now,
                 !.state.currentTurn = @ + 1,
                 !.state.turnProgress = 0]
        ELSE e1

\* GameEngine.update, the real-time part.
updateTime(e, deltaTime) ==
    LET e3 == [e EXCEPT !.state.timeRemaining = @ - deltaTime]
    IN  IF e3.state.timeRemaining <= 0 THEN handleTimeUp(e3) ELSE e3

\* update running while the game is paused.
updateWhilePaused(e, now, deltaTime) ==
    IF ~e.state.isPlaying
    THEN e
    ELSE updateTime(updateTurn(e, now), deltaTime)

\* GameEngine.update
update(e, now, deltaTime) ==
    IF ~e.state.isPlaying \/ e.state.isPaused
    THEN e
    ELSE updateTime(updateTurn(e, now), deltaTime)

\* GameEngine.togglePause
togglePause(e) ==
    emitEvent([e EXCEPT !.state.isPaused = ~@], "PAUSE_TOGGLED")

\* GameEngine.resetGame
resetGame(e, now) ==
    emitEvent([e EXCEPT !.state.score = 0,
                        !.state.lives = InitialLives,
                        !.state.timeRemaining = getTimeLimit(e.state.level),
                        !.state.isPlaying = TRUE,
                        !.state.isPaused = FALSE,
                        !.state.currentTurn = 0,
                        !.state.lastTurnTime = now,
                        !.state.turnProgress = 0,
                        !.state.currentlyPressedDirection = NoDirection,
                        !.state.lastPressedDirection = NoDirection,
                        !.state.lastPressTime = 0],
              "GAME_RESET")

\* GameEngine.handleInput; input has the fields direction, pause, reset.
handleInput(e, now, input) ==
    LET e1 == IF input.pause THEN togglePause(e) ELSE e
        e2 == IF input.reset THEN resetGame(e1, now) ELSE e1
    IN  IF input.direction # NoDirection /\ e2.state.isPlaying /\ ~e2.state.isPaused
        THEN [e2 EXCEPT !.state.lastPressedDirection = input.direction,
                        !.state.lastPressTime = now]
        ELSE e2

\* GameEngine.setCurrentlyPressed
setCurrentlyPressed(e, direction) ==
    [e EXCEPT !.state.currentlyPressedDirection = direction]

\* GameEngine.loadLevel
loadLevel(e, now, level, levelData) ==
    emitEvent([e EXCEPT !.state.level = level,
                        !.state.levelData = levelData,
                        !.state.timeRemaining = getTimeLimit(level),
                        !.state.isPlaying = TRUE,
                        !.state.currentTurn = 0,
                        !.state.lastTurnTime = now,
                        !.state.currentlyPressedDirection = NoDirection,
                        !.state.lastPressedDirection = NoDirection,
                        !.state.lastPressTime = 0],
              "LEVEL_LOADED")

(***************************************************************************)
(* The engine as a state machine                                           *)
(*                                                                         *)
(* The driver (components/Game.tsx) calls update once per frame; key       *)
(* handlers call setCurrentlyPressed and handleInput between frames.  In   *)
(* Spec a frame lasts FrameMs = TURN_DURATION_MS, so every update of a     *)
(* running game executes a turn, and the direction of a turn is given by   *)
(* the held key (handleInput is called for pause and reset; a pressed      *)
(* direction reaches movePlayer through determinePlayerAction exactly as a *)
(* held one does).                                                         *)
(***************************************************************************)

VARIABLES
    state,    \* GameEngine.state
    events,   \* types of the events the last call emitted, in order
    last,     \* the last step: the call's name, its arguments, what it observed
    now       \* Date.now()

vars == <<state, events, last, now>>

\* Clock value at construction, the length of a frame and of a run.
StartNow == 1000
FrameMs == 200
MaxFrames == 4

\* Largest deltaTime passed to update, in time units.
MaxDeltaTime == 2

\* Level data the engine is run on.
CrushLevel ==
    [name |-> "crush", diamondsRequired |-> 1, timeLimit |-> 1,
     layout |-> << <<" ", "O", " ">>,
                   <<" ", " ", " ">>,
                   <<"@", "*", "E">> >>]

GateLevel ==
    [name |-> "gate", diamondsRequired |-> 1, timeLimit |-> 1,
     layout |-> << <<"*", "@", "E", "*">> >>]

EngineLevels == {CrushLevel, GateLevel}

Inputs ==
    {[direction |-> NoDirection, pause |-> TRUE, reset |-> FALSE],
     [direction |-> NoDirection, pause |-> FALSE, reset |-> TRUE]}

\* The record the methods run on, at the start of a call.
Call(s) == [state |-> s, events |-> <<>>, log |-> NoLog]

\* What is recorded of a call: its name and argument, what it observed and,
\* for update, the state it started from.
Observed(op, arg, e) ==
    [op |-> op, arg |-> arg,
     before |-> IF op = "update" THEN state ELSE None,
     turn |-> e.log.turn,
     action |-> e.log.action, move |-> e.log.move, phys |-> e.log.phys,
     afterTurn |-> e.log.afterTurn, rebuilt |-> e.log.rebuilt,
     completeAt |-> e.log.completeAt, calls |-> e.log.calls]

\* The call op(arg) has run and left e.
Return(op, arg, e) ==
    /\ state' = e.state
    /\ events' = e.events
    /\ last' = Observed(op, arg, e)

Init ==
    /\ now = StartNow
    /\ \E levelData \in EngineLevels :
          state = GameEngine(Level(levelData), levelData, StartNow)
    /\ events = <<>>
    /\ last = [op |-> "new", arg |-> None, before |-> None, turn |-> FALSE,
               action |-> NoDirection, move |-> None, phys |-> None,
               afterTurn |-> None, rebuilt |-> FALSE,
               completeAt |-> <<>>]

\* A frame: FrameMs after the previous one the driver calls update.
Update(deltaTime) ==
    /\ now + FrameMs <= StartNow + MaxFrames * FrameMs
    /\ now' = now + FrameMs
    /\ Return("update", deltaTime, update(Call(state), now + FrameMs, deltaTime))

HandleInput(input) ==
    /\ Return("handleInput", input, handleInput(Call(state), now, input))
    /\ UNCHANGED now

SetCurrentlyPressed(direction) ==
    /\ Return("setCurrentlyPressed", direction,
              setCurrentlyPressed(Call(state), direction))
    /\ UNCHANGED now

\* The driver loads a level when its level changes.
LoadLevel(levelData) ==
    /\ Return("loadLevel", levelData.name,
              loadLevel(Call(state), now, Level(levelData), levelData))
    /\ UNCHANGED now

Next ==
    \/ \E deltaTime \in {0, MaxDeltaTime} : Update(deltaTime)
    \/ \E input \in Inputs : HandleInput(input)
    \/ \E direction \in Directions \cup {NoDirection} : SetCurrentlyPressed(direction)
    \/ \E levelData \in EngineLevels : LoadLevel(levelData)

Spec == Init /\ [][Next]_vars

(***************************************************************************)
(* GameLogic called directly                                               *)
(*                                                                         *)
(* GameLogic's static methods are public: SpecLogic calls movePlayer and   *)
(* updatePhysics in any order on the grid of a level.  The engine's other  *)
(* fields stay as constructed.                                             *)
(***************************************************************************)

RollLevel ==
    [name |-> "roll", diamondsRequired |-> 0, timeLimit |-> 1,
     layout |-> << <<"O", " ", "@">>,
                   <<" ", " ", ".">>,
                   <<"O", " ", "*">> >>]

PushLevel ==
    [name |-> "push", diamondsRequired |-> 0, timeLimit |-> 1,
     layout |-> << <<" ", "@", "O", " ">>,
                   <<"O", ".", "#", "*">> >>]

DoorLevel ==
    [name |-> "door", diamondsRequired |-> 0, timeLimit |-> 1,
     layout |-> << <<"O", "@", "E", "O", " ">> >>]

DropLevel ==
    [name |-> "drop", diamondsRequired |-> 0, timeLimit |-> 1,
     layout |-> << <<"*", " ", "O">>,
                   <<" ", " ", " ">>,
                   <<" ", "@", " ">> >>]

\* A boulder on a diamond with room to roll on both sides.
TieLevel ==
    [name |-> "tie", diamondsRequired |-> 0, timeLimit |-> 1,
     layout |-> << <<" ", "O", " ", "@">>,
                   <<" ", "*", " ", " ">> >>]

\* An open exit at the edge, on dirt, next to a boulder that can be pushed.
DigLevel ==
    [name |-> "dig", diamondsRequired |-> 0, timeLimit |-> 1,
     layout |-> << <<" ", "O", "@", "E">>,
                   <<".", "#", ".", ".">> >>]

\* A boulder between the player and a diamond.
BlockLevel ==
    [name |-> "block", diamondsRequired |-> 0, timeLimit |-> 1,
     layout |-> << <<"@", "O", "*">> >>]

\* A boulder on a diamond above an empty cell.
StackLevel ==
    [name |-> "stack", diamondsRequired |-> 0, timeLimit |-> 1,
     layout |-> << <<"O", "@">>,
                   <<"*", " ">>,
                   <<" ", " ">> >>]

LogicLevels ==
    {RollLevel, PushLevel, DoorLevel, DropLevel, CrushLevel, TieLevel,
     DigLevel, BlockLevel, StackLevel}

InitLogic ==
    /\ now = StartNow
    /\ \E levelData \in LogicLevels :
          state = GameEngine(Level(levelData), levelData, StartNow)
    /\ events = <<>>
    /\ last = [op |-> "new", arg |-> None, before |-> None, turn |-> FALSE,
               action |-> NoDirection, move |-> None, phys |-> None,
               afterTurn |-> None, rebuilt |-> FALSE,
               completeAt |-> <<>>]

\* The call op(arg) of GameLogic has run and left result.
ReturnLogic(op, arg, result) ==
    /\ state' = [state EXCEPT !.level.grid = result.grid]
    /\ last' = [op |-> op, arg |-> arg, before |-> state, turn |-> FALSE,
                action |-> NoDirection,
                move |-> IF op = "movePlayer" THEN result ELSE None,
                phys |-> IF op = "updatePhysics" THEN result ELSE None,
                afterTurn |-> None, rebuilt |-> FALSE,
               completeAt |-> <<>>]

MovePlayer(direction) ==
    /\ ReturnLogic("movePlayer", direction,
                   movePlayer(state.level.grid, direction))
    /\ UNCHANGED <<events, now>>

UpdatePhysics ==
    /\ ReturnLogic("updatePhysics", None, updatePhysics(state.level.grid))
    /\ UNCHANGED <<events, now>>

\* A caller asks MovementSystem.canMove about the grid.
CanMove(direction) ==
    /\ last' = [op |-> "canMove", arg |-> direction, before |-> state,
                turn |-> FALSE, action |-> NoDirection,
                move |-> [success |-> canMove(state.level.grid, direction)],
                phys |-> None, afterTurn |-> None, rebuilt |-> FALSE,
                completeAt |-> <<>>]
    /\ UNCHANGED <<state, events, now>>

NextLogic ==
    \/ \E direction \in Directions : MovePlayer(direction)
    \/ UpdatePhysics
    \/ \E direction \in Directions : CanMove(direction)

SpecLogic == InitLogic /\ [][NextLogic]_vars

(***************************************************************************)
(* GameGrid on its own                                                     *)
(*                                                                         *)
(* In SpecGrid the coordinate operations of a grid are called with         *)
(* coordinates inside the grid and one step outside of it on every side.   *)
(***************************************************************************)

\* A grid with a solid entity and an entity that is not solid.
GridLevel ==
    [name |-> "grid", diamondsRequired |-> 0, timeLimit |-> 1,
     layout |-> << <<"O", "*">> >>]

\* The coordinates the callers pass.
CallXs == -1 .. Level(GridLevel).grid.width
CallYs == -1 .. Level(GridLevel).grid.height

\* The identity of the entity a caller creates and hands to setEntity.
CallerId == 0

InitGrid ==
    /\ now = StartNow
    /\ state = GameEngine(Level(GridLevel), GridLevel, StartNow)
    /\ events = <<>>
    /\ last = [op |-> "new", arg |-> None, before |-> None, result |-> None]

\* The call op(arg) of the grid has returned result and left grid.
ReturnGrid(op, arg, grid, result) ==
    /\ state' = [state EXCEPT !.level.grid = grid]
    /\ last' = [op |-> op, arg |-> arg, before |-> state, result |-> result]

GetEntity(x, y) ==
    /\ ReturnGrid("getEntity", <<x, y>>, state.level.grid,
                  getEntity(state.level.grid, x, y))
    /\ UNCHANGED <<events, now>>

\* setEntity with null or with an entity made for the cell.
SetEntity(x, y, entity) ==
    /\ entity # Null => \A p \in DOMAIN state.level.grid.cells :
                            IF state.level.grid.cells[p] = Null THEN TRUE
                            ELSE state.level.grid.cells[p].id # entity.id
    /\ ReturnGrid("setEntity", <<x, y>>,
                  setEntity(state.level.grid, x, y, entity).grid,
                  setEntity(state.level.grid, x, y, entity).ok)
    /\ UNCHANGED <<events, now>>

MoveEntity(fromX, fromY, toX, toY) ==
    /\ ReturnGrid("moveEntity", <<fromX, fromY, toX, toY>>,
                  moveEntity(state.level.grid, fromX, fromY, toX, toY).grid,
                  moveEntity(state.level.grid, fromX, fromY, toX, toY).ok)
    /\ UNCHANGED <<events, now>>

RemoveEntity(x, y) ==
    /\ ReturnGrid("removeEntity", <<x, y>>,
                  removeEntity(state.level.grid, x, y).grid,
                  removeEntity(state.level.grid, x, y).entity)
    /\ UNCHANGED <<events, now>>

NextGrid ==
    \/ \E x \in CallXs, y \in CallYs : GetEntity(x, y)
    \/ \E x \in CallXs, y \in CallYs :
          \E entity \in {Null, Wall(CallerId, x, y)} : SetEntity(x, y, entity)
    \/ \E fromX \in CallXs, fromY \in CallYs, toX \in CallXs, toY \in CallYs :
          MoveEntity(fromX, fromY, toX, toY)
    \/ \E x \in CallXs, y \in CallYs : RemoveEntity(x, y)

SpecGrid == InitGrid /\ [][NextGrid]_vars

(***************************************************************************)
(* Level construction                                                      *)
(*                                                                         *)
(* In SpecLevel a Level is constructed from level data whose layout has up *)
(* to two rows of up to two characters, "?" standing for the characters    *)
(* the factory does not know.                                              *)
(***************************************************************************)

LayoutChars == {"@", "#", ".", "*", "O", "E", " ", "?"}
LayoutRows ==
    {<<>>} \cup {<<a>> : a \in LayoutChars}
           \cup {<<a, b>> : a \in LayoutChars, b \in LayoutChars}
Layouts ==
    {<<>>} \cup {<<r>> : r \in LayoutRows}
           \cup {<<r, s>> : r \in LayoutRows, s \in LayoutRows}

\* The level data is at hand, no Level is constructed yet.
InitLevel ==
    /\ now = StartNow
    /\ \E layout \in Layouts, diamondsRequired \in {0, 1} :
          state = [levelData |-> [name |-> "made", timeLimit |-> 1,
                                  diamondsRequired |-> diamondsRequired,
                                  layout |-> layout],
                   level |-> None]
    /\ events = <<>>
    /\ last = [op |-> "new", arg |-> None, before |-> None, result |-> None]

\* new Level(levelData)
ConstructLevel ==
    /\ state.level = None
    /\ state' = [state EXCEPT !.level = Level(state.levelData)]
    /\ last' = [op |-> "Level", arg |-> state.levelData, before |-> state,
                result |-> None]
    /\ UNCHANGED <<events, now>>

NextLevel == ConstructLevel /\ TRUE

SpecLevel == InitLevel /\ [][NextLevel]_vars

(***************************************************************************)
(* The engine between turns                                                *)
(*                                                                         *)
(* In SpecTiming the clock advances in steps of TickMs, shorter than a     *)
(* turn, and the driver's calls read the clock where it stands: update     *)
(* runs with less than, exactly or more than a turn elapsed, and key       *)
(* presses reach handleInput with their time stamp (Game.tsx handleKeyDown *)
(* sends the direction alone).  The countdown runs in steps of one time    *)
(* unit.                                                                   *)
(***************************************************************************)

\* The length of a clock step and the number of steps of a run.
TickMs == 100
MaxTicks == 5

\* A boulder resting on the player, next to an open exit.
PropLevel ==
    [name |-> "prop", diamondsRequired |-> 0, timeLimit |-> 1,
     layout |-> << <<" ", "O", " ">>,
                   <<" ", "@", "E">> >>]

\* The keys of a run.
Keys == {LEFT, RIGHT}

TimedInputs ==
    {[direction |-> d, pause |-> FALSE, reset |-> FALSE] : d \in Keys}
    \cup {[direction |-> NoDirection, pause |-> TRUE, reset |-> FALSE]}

InitTiming ==
    /\ now = StartNow
    /\ state = GameEngine(Level(PropLevel), PropLevel, StartNow)
    /\ events = <<>>
    /\ last = [op |-> "new", arg |-> None, before |-> None, turn |-> FALSE,
               action |-> NoDirection, move |-> None, phys |-> None,
               afterTurn |-> None, rebuilt |-> FALSE,
               completeAt |-> <<>>]

\* Time passes between two calls.
Tick ==
    /\ now + TickMs <= StartNow + MaxTicks * TickMs
    /\ now' = now + TickMs
    /\ Return("tick", None, Call(state))

\* The driver calls update at the current clock value.
UpdateNow(deltaTime) ==
    /\ Return("update", deltaTime, update(Call(state), now, deltaTime))
    /\ UNCHANGED now

NextTiming ==
    \/ Tick
    \/ \E deltaTime \in {0, 1} : UpdateNow(deltaTime)
    \/ \E input \in TimedInputs : HandleInput(input)
    \/ \E direction \in Keys \cup {NoDirection} : SetCurrentlyPressed(direction)

SpecTiming == InitTiming /\ [][NextTiming]_vars

(***************************************************************************)
(* Event listeners                                                         *)
(*                                                                         *)
(* In SpecEvents two callbacks are registered for and removed from two     *)
(* event types while the engine runs a level without key presses and is    *)
(* paused, reset and destroyed.  The callbacks do not call the engine.     *)
(***************************************************************************)

Callbacks == {"f", "g"}
ListenedTypes == {"PAUSE_TOGGLED", "LIFE_LOST"}

\* The largest number of registrations the registry holds in a run.
MaxListeners == 2

RECURSIVE Registrations(_, _)
Registrations(eventListeners, types) ==
    IF types = {} THEN 0
    ELSE LET t == CHOOSE t \in types : TRUE
         IN  Len(eventListeners[t]) + Registrations(eventListeners, types \ {t})

InitEvents ==
    /\ now = StartNow
    /\ state = GameEngine(Level(GateLevel), GateLevel, StartNow)
    /\ events = <<>>
    /\ last = Observed("new", None, Call(state))

AddEventListener(eventType, listener) ==
    /\ Registrations(state.eventListeners, DOMAIN state.eventListeners)
          < MaxListeners
    /\ Return("addEventListener", <<eventType, listener>>,
              addEventListener(Call(state), eventType, listener))
    /\ UNCHANGED now

RemoveEventListener(eventType, listener) ==
    /\ Return("removeEventListener", <<eventType, listener>>,
              removeEventListener(Call(state), eventType, listener))
    /\ UNCHANGED now

Destroy ==
    /\ Return("destroy", None, destroy(Call(state)))
    /\ UNCHANGED now

NextEvents ==
    \/ \E deltaTime \in {0, MaxDeltaTime} : Update(deltaTime)
    \/ \E input \in Inputs : HandleInput(input)
    \/ \E eventType \in ListenedTypes, listener \in Callbacks :
          AddEventListener(eventType, listener)
    \/ \E eventType \in ListenedTypes, listener \in Callbacks :
          RemoveEventListener(eventType, listener)
    \/ Destroy

SpecEvents == InitEvents /\ [][NextEvents]_vars

(***************************************************************************)
(* A push over an edge                                                     *)
(*                                                                         *)
(* In SpecShove the engine runs a level in which the player can push a     *)
(* boulder to a cell with nothing below it.                                *)
(***************************************************************************)

ShoveLevel ==
    [name |-> "shove", diamondsRequired |-> 0, timeLimit |-> 1,
     layout |-> << <<"@", "O", " ">>,
                   <<"E", "#", " ">> >>]

InitShove ==
    /\ now = StartNow
    /\ state = GameEngine(Level(ShoveLevel), ShoveLevel, StartNow)
    /\ events = <<>>
    /\ last = Observed("new", None, Call(state))

NextShove ==
    \/ \E deltaTime \in {0, MaxDeltaTime} : Update(deltaTime)
    \/ \E direction \in Directions \cup {NoDirection} : SetCurrentlyPressed(direction)

SpecShove == InitShove /\ [][NextShove]_vars

(***************************************************************************)
(* Presses that are not held                                               *)
(*                                                                         *)
(* In SpecPress no direction is ever held (setCurrentlyPressed is not      *)
(* called): directions reach the engine through handleInput alone, at any  *)
(* clock value, before or after the update made at that value.  With each  *)
(* call is recorded how many executed turns have attempted a move since    *)
(* the last press.                                                         *)
(***************************************************************************)

\* What is recorded of a call in SpecPress.
Pressed(op, arg, e, attempts) ==
    [op |-> op, arg |-> arg, turn |-> e.log.turn, action |-> e.log.action,
     attempts |-> attempts]

InitPress ==
    /\ now = StartNow
    /\ state = GameEngine(Level(PropLevel), PropLevel, StartNow)
    /\ events = <<>>
    /\ last = Pressed("new", None, Call(state), 0)

\* Time passes between two calls.
TickPress ==
    /\ now + TickMs <= StartNow + MaxTicks * TickMs
    /\ now' = now + TickMs
    /\ last' = Pressed("tick", None, Call(state), last.attempts)
    /\ UNCHANGED <<state, events>>

\* A key is pressed and released: handleInput with its direction.
PressKey(direction) ==
    /\ state' = handleInput(Call(state), now,
                    [direction |-> direction, pause |-> FALSE,
                     reset |-> FALSE]).state
    /\ events' = <<>>
    /\ last' = Pressed("handleInput", direction, Call(state), 0)
    /\ UNCHANGED now

\* The driver calls update at the current clock value.
UpdatePress ==
    /\ state' = update(Call(state), now, 0).state
    /\ events' = update(Call(state), now, 0).events
    /\ last' = Pressed("update", 0, update(Call(state), now, 0),
                       last.attempts
                          + (IF update(Call(state), now, 0).log.action # NoDirection
                             THEN 1 ELSE 0))
    /\ UNCHANGED now

NextPress ==
    \/ TickPress
    \/ \E direction \in Keys : PressKey(direction)
    \/ UpdatePress

SpecPress == InitPress /\ [][NextPress]_vars

(***************************************************************************)
(* Properties                                                              *)
(***************************************************************************)

\* The grid now, and the grid the last call started from.
Grid == state.level.grid
GridBefore == last.before.level.grid

\* The cells that hold an entity.
Occupied(grid) == {p \in DOMAIN grid.cells : grid.cells[p] # Null}

\* The cells that hold a boulder or a diamond.
Fallables(grid) ==
    {p \in Occupied(grid) : grid.cells[p].type \in {BOULDER, DIAMOND}}

\* The cell that references the object with identity id, NoCell if none does.
CellOf(grid, id) ==
    IF \E p \in Occupied(grid) : grid.cells[p].id = id
    THEN CHOOSE p \in Occupied(grid) : grid.cells[p].id = id
    ELSE NoCell

\* The cell below p.
Below(p) == <<p[1], p[2] + 1>>

\* C1: in every state reachable through update and handleInput, every entity
\* a cell references has that cell as its stored position; only the cell
\* that holds the Exit is excepted.
C1_CellsHoldTheirEntities ==
    \A p \in Occupied(Grid) :
        \/ Grid.cells[p].x = p[1] /\ Grid.cells[p].y = p[2]
        \/ Grid.cells[p].type = EXIT

\* C2: within one call of updatePhysics the row of a boulder or diamond
\* grows by at most 1, and one that has an empty cell directly below it when
\* the call starts ends exactly one row down, in its column.
C2_SingleMovePerTick ==
    last.op = "updatePhysics" =>
        \A p \in Fallables(GridBefore) :
            LET q == CellOf(Grid, GridBefore.cells[p].id)
            IN  /\ q # NoCell
                /\ q[2] <= p[2] + 1
                /\ (Below(p) \in DOMAIN GridBefore.cells
                    /\ GridBefore.cells[Below(p)] = Null) => q = Below(p)

\* The cells of the falling boulders and diamonds that have the player in
\* the cell directly below.
Killers(grid) ==
    {p \in Fallables(grid) :
        /\ grid.cells[p].falling
        /\ Below(p) \in DOMAIN grid.cells
        /\ grid.cells[Below(p)] # Null
        /\ grid.cells[Below(p)].type = PLAYER}

\* C3: updatePhysics reports the player's death, and clears the alive flag
\* of a living player, iff a boulder or diamond whose falling flag is set
\* has the player in the cell directly below when the gravity pass reaches
\* it (the player does not move and a flag changes only where the pass is,
\* so that is: when updatePhysics is called).  A resting one above the
\* player does not kill, nor does the rolling pass.  The killer stays in its
\* cell, the player in the cell below it, no longer alive.
C3_FallKill ==
    last.op = "updatePhysics" =>
        /\ last.phys.playerDied <=> Killers(GridBefore) # {}
        /\ \A p \in Occupied(GridBefore) :
              GridBefore.cells[p].type = PLAYER =>
                 /\ Grid.cells[p] # Null
                 /\ Grid.cells[p].id = GridBefore.cells[p].id
                 /\ Grid.cells[p].alive <=>
                        (GridBefore.cells[p].alive /\ Killers(GridBefore) = {})
        /\ \A p \in Killers(GridBefore) :
              /\ Grid.cells[p] # Null
              /\ Grid.cells[p].id = GridBefore.cells[p].id
              /\ Grid.cells[Below(p)] # Null
              /\ Grid.cells[Below(p)].type = PLAYER
              /\ ~Grid.cells[Below(p)].alive

\* A call of updatePhysics in which a falling diamond killed the player.
C3_Witness ==
    /\ last.op = "updatePhysics"
    /\ last.phys.playerDied
    /\ \E p \in Killers(GridBefore) : GridBefore.cells[p].type = DIAMOND

\* The player and the exit of a grid that holds them.
ThePlayer(grid) ==
    grid.cells[CHOOSE p \in Occupied(grid) : grid.cells[p].type = PLAYER]
TheExit(grid) ==
    grid.cells[CHOOSE p \in Occupied(grid) : grid.cells[p].type = EXIT]

\* The cell one step in the direction from an entity's stored position.
Target(entity, direction) ==
    <<entity.x + getDirectionVector(direction).dx,
      entity.y + getDirectionVector(direction).dy>>

\* An entity of the type is in the cell.
Holds(grid, p, type) ==
    p \in DOMAIN grid.cells /\ grid.cells[p] # Null /\ grid.cells[p].type = type

\* The cell is in bounds and empty.
IsEmpty(grid, p) == p \in DOMAIN grid.cells /\ grid.cells[p] = Null

\* C4: when movePlayer finds a boulder in the target cell of a live player,
\* the move succeeds iff the direction is LEFT or RIGHT and the cell beyond
\* the boulder is in bounds and empty; on success the boulder is in the
\* beyond cell and the player in the boulder's former cell; UP and DOWN fail
\* and leave boulder and player where they were.
C4_BoulderPush ==
    last.op = "movePlayer" =>
        LET player == ThePlayer(GridBefore)
            target == Target(player, last.arg)
            boulder == GridBefore.cells[target]
            beyond == Target(boulder, last.arg)
        IN  (player.alive /\ Holds(GridBefore, target, BOULDER)) =>
               /\ last.move.success <=>
                     (last.arg \in {LEFT, RIGHT} /\ IsEmpty(GridBefore, beyond))
               /\ last.move.success =>
                     /\ CellOf(Grid, boulder.id) = beyond
                     /\ CellOf(Grid, player.id) = target
                     /\ <<ThePlayer(Grid).x, ThePlayer(Grid).y>> = target
               /\ last.arg \in {UP, DOWN} =>
                     /\ ~last.move.success
                     /\ CellOf(Grid, boulder.id) = target
                     /\ CellOf(Grid, player.id) = CellOf(GridBefore, player.id)
                     /\ ThePlayer(Grid).x = player.x
                     /\ ThePlayer(Grid).y = player.y

\* The last call was an update that executed a turn in which movePlayer ran.
MovedInTurn == last.op = "update" /\ last.turn /\ last.action # NoDirection

\* ... and collected a diamond.
CollectedInTurn ==
    MovedInTurn /\ last.move.success /\ last.move.diamondCollected

ExitOpen(st) == TheExit(st.level.grid).isOpen
QuotaMet(st) ==
    ThePlayer(st.level.grid).diamondsCollected >=
        TheExit(st.level.grid).diamondsRequired

\* The step gave the engine another Level object.
NewLevel == last'.rebuilt \/ last'.op = "loadLevel"

\* C6: after every call the exit is open exactly when the player has the
\* diamonds it requires (the count only grows while the level object is the
\* same), so the exit opens in the turn that first meets the requirement;
\* and while the level object stays the same an open exit stays open.
C6_ExitOpensOnceQuotaMet ==
    [][/\ ExitOpen(state') <=> QuotaMet(state')
       /\ (ExitOpen(state) /\ ~NewLevel) => ExitOpen(state')
       /\ (QuotaMet(state) /\ ~NewLevel) => QuotaMet(state')]_vars

\* A turn in which collecting a diamond met the requirement and opened the
\* exit.
C6_Witness ==
    /\ CollectedInTurn
    /\ ~last.rebuilt
    /\ ~ExitOpen(last.before) /\ ~QuotaMet(last.before)
    /\ ExitOpen(state) /\ QuotaMet(state)

\* The grid movePlayer is called on in a turn: the grid at the start of the
\* update with every entity's animation state reset.
TurnGrid ==
    [GridBefore EXCEPT !.cells =
        [p \in DOMAIN @ |-> IF @[p] # Null THEN resetAnimation(@[p]) ELSE Null]]

\* The turn's move was a live player's move onto the cell that holds the
\* exit.
ExitMoveInTurn ==
    /\ MovedInTurn
    /\ ThePlayer(TurnGrid).alive
    /\ Holds(TurnGrid, Target(ThePlayer(TurnGrid), last.action), EXIT)

\* C7: a move onto the exit's cell fails and leaves the grid (the player's
\* position with it) as it was unless the player has the diamonds the exit
\* requires and the exit is open; when it succeeds the player's coordinates
\* are the exit's cell and the exit is still in the grid at that cell.
C7_ExitEntry ==
    ExitMoveInTurn =>
        LET player == ThePlayer(TurnGrid)
            target == Target(player, last.action)
            exit == TurnGrid.cells[target]
        IN  /\ (player.diamondsCollected < exit.diamondsRequired \/ ~exit.isOpen)
                  => ~last.move.success /\ last.move.grid = TurnGrid
            /\ last.move.success =>
                  /\ <<ThePlayer(last.move.grid).x,
                       ThePlayer(last.move.grid).y>> = target
                  /\ Holds(last.move.grid, target, EXIT)
                  /\ last.move.grid.cells[target].id = exit.id

\* A turn in which the move onto the closed exit failed.
C7_Witness ==
    /\ ExitMoveInTurn
    /\ ~TheExit(TurnGrid).isOpen
    /\ ~last.move.success
    /\ ThePlayer(Grid).diamondsCollected = 0

\* The three conditions of completion, on a GameState.
AtExit(st) ==
    /\ ThePlayer(st.level.grid).x = TheExit(st.level.grid).x
    /\ ThePlayer(st.level.grid).y = TheExit(st.level.grid).y
CompletionHolds(st) == AtExit(st) /\ QuotaMet(st) /\ ExitOpen(st)

\* The event was emitted by the last call.
Emitted(type) == \E i \in DOMAIN events : events[i] = type

\* C8: at the end of an executed turn the engine is in LevelComplete
\* (isPlaying false, LEVEL_COMPLETE emitted) iff the player's position is the
\* exit's, the player has the required diamonds and the exit is open; and
\* whenever it emits LEVEL_COMPLETE the three hold (and isPlaying is false)
\* at that moment.
C8_CompletionIffConditions ==
    (last.op = "update" /\ last.turn) =>
        /\ (~last.afterTurn.isPlaying /\ Emitted("LEVEL_COMPLETE"))
              <=> CompletionHolds(last.afterTurn)
        /\ \A i \in DOMAIN last.completeAt :
              CompletionHolds(last.completeAt[i]) /\ ~last.completeAt[i].isPlaying

\* A turn of a running game in which the player entered the open exit and
\* that ended in LevelComplete.
C8_Witness ==
    /\ last.op = "update" /\ last.turn
    /\ last.before.isPlaying /\ ~CompletionHolds(last.before)
    /\ ~last.afterTurn.isPlaying /\ Emitted("LEVEL_COMPLETE")
    /\ CompletionHolds(last.afterTurn)
    /\ ~last.rebuilt

\* C9: a turn that takes the engine from Playing to LevelComplete adds
\* floor(timeRemaining) to the score.
C9_TimeBonus ==
    (/\ last.op = "update" /\ last.turn
     /\ Emitted("LEVEL_COMPLETE") /\ ~last.afterTurn.isPlaying
     /\ ~Emitted("DIAMOND_COLLECTED"))
        => /\ ~state.isPlaying
           /\ last.afterTurn.score =
                 last.before.score + Floor(last.before.timeRemaining)

\* The step is a call that restarts the game: loadLevel or a reset.
Restart ==
    \/ last'.op = "loadLevel"
    \/ last'.op = "handleInput" /\ last'.arg.reset

\* C10: once LEVEL_COMPLETE or GAME_OVER is emitted and isPlaying false,
\* isPlaying stays false: a call that emitted one of them ends with
\* isPlaying false, and no later call but loadLevel or a reset makes it true.
C10_TerminalStates ==
    [][/\ (Emitted("LEVEL_COMPLETE")' \/ Emitted("GAME_OVER")')
             => ~state'.isPlaying
       /\ (~state.isPlaying /\ ~Restart) => ~state'.isPlaying]_vars

\* The last call was an update whose turn killed the player.
DiedInTurn == last.op = "update" /\ last.turn /\ Emitted("PLAYER_DIED")

\* C11: when the player is killed in a turn and still has a life after it,
\* then at the end of the turn lives is one less, the level is a fresh level
\* built from the level data the engine stored (every entity in its initial
\* cell with its initial flags, the player alive with no diamonds), the
\* death has not changed the score (it is the score before the turn plus
\* what the turn's move collected) and the engine is Playing.
C11_DeathRestartsLevel ==
    (DiedInTurn /\ last.before.lives > 1) =>
        /\ last.afterTurn.lives = last.before.lives - 1
        /\ last.afterTurn.levelData = last.before.levelData
        /\ last.afterTurn.level = Level(last.before.levelData)
        /\ ThePlayer(last.afterTurn.level.grid).alive
        /\ ThePlayer(last.afterTurn.level.grid).diamondsCollected = 0
        /\ last.afterTurn.score =
              last.before.score +
                 (IF Emitted("DIAMOND_COLLECTED") THEN DiamondPoints ELSE 0)
        /\ last.afterTurn.isPlaying

\* A turn in which the player, having moved and collected a diamond before,
\* was killed with lives to spare.
C11_Witness ==
    /\ DiedInTurn
    /\ last.before.lives = InitialLives
    /\ last.before.level # Level(last.before.levelData)
    /\ last.before.score = DiamondPoints
    /\ last.afterTurn.lives = InitialLives - 1
    /\ last.afterTurn.score = DiamondPoints

\* The state the real-time part of the last update started from.
Mid == IF last.turn THEN last.afterTurn ELSE last.before

\* The last call was an update, of a running game, in which the countdown
\* reached zero.
TimeUp ==
    /\ last.op = "update"
    /\ last.before.isPlaying /\ ~last.before.isPaused
    /\ Mid.timeRemaining - last.arg <= 0

\* C12: when the countdown reaches zero in update, lives is decremented by
\* 1; if lives remain, timeRemaining is the level's full time limit, a
\* Playing engine stays Playing and the grid is as the time-up rule found
\* it; if none remain, isPlaying is false and GAME_OVER is emitted.
C12_TimeUp ==
    TimeUp =>
        /\ state.lives = Mid.lives - 1
        /\ state.lives > 0 =>
              /\ state.timeRemaining = getTimeLimit(state.level)
              /\ state.isPlaying = Mid.isPlaying
              /\ state.level = Mid.level
              /\ events[Len(events)] = "LIFE_LOST"
        /\ state.lives <= 0 =>
              /\ ~state.isPlaying
              /\ events[Len(events)] = "GAME_OVER"

\* An update of a Playing engine in which the countdown reached zero with
\* lives to spare.
C12_Witness ==
    /\ TimeUp
    /\ Mid.isPlaying /\ state.isPlaying
    /\ Mid.timeRemaining - last.arg <= 0
    /\ state.lives = InitialLives - 1
    /\ state.timeRemaining = getTimeLimit(state.level)

\* C13: an update in which the countdown reaches zero executes no turn: the
\* level (grid and entities) and the turn counter are after the call as
\* they were before it.
C13_NoTurnOnTimeUp ==
    TimeUp =>
        /\ ~last.turn
        /\ state.level = last.before.level
        /\ state.currentTurn = last.before.currentTurn

\* The engine is paused or not playing.
Idle(st) == st.isPaused \/ ~st.isPlaying

\* C14: an update called while the engine is paused or not playing leaves
\* the state as it is (grid, entities, score, lives, timeRemaining, turn
\* counter, turnProgress) and emits no event; a pause toggle flips isPaused
\* and changes nothing else; a direction passed to handleInput while the
\* engine is paused or not playing is not recorded.
C14_NoProgressUnlessRunning ==
    [][/\ (last'.op = "update" /\ Idle(state))
             => state' = state /\ events' = <<>>
       /\ (last'.op = "handleInput" /\ last'.arg.pause)
             => /\ state' = [state EXCEPT !.isPaused = ~@]
                /\ events' = <<"PAUSE_TOGGLED">>
       /\ (last'.op = "handleInput" /\ last'.arg.direction # NoDirection
              /\ Idle(state))
             => state' = state]_vars

\* An update called on a paused, playing engine when a turn is due and the
\* countdown would run.
C14_Witness ==
    /\ last.op = "update" /\ last.arg > 0
    /\ last.before.isPaused /\ last.before.isPlaying
    /\ now - last.before.lastTurnTime >= TURN_DURATION_MS
    /\ last.before.currentlyPressedDirection # NoDirection
    /\ state = last.before

\* The last call was an update of a running engine made less than a turn
\* after the last turn boundary.
BetweenTurns ==
    /\ last.op = "update"
    /\ ~Idle(last.before)
    /\ now - last.before.lastTurnTime < TURN_DURATION_MS

\* C15: an update made less than TURN_DURATION_MS after the last turn
\* boundary leaves the level as it is (every cell's content, every entity's
\* position and flags); of the state only turnProgress and the countdown
\* and, on time-up, lives, timeRemaining and isPlaying may differ.
C15_NoGridChangeBetweenTurns ==
    BetweenTurns =>
        /\ ~last.turn
        /\ state.level = last.before.level
        /\ state = [last.before EXCEPT
                       !.turnProgress = state.turnProgress,
                       !.timeRemaining = state.timeRemaining,
                       !.lives = state.lives,
                       !.isPlaying = state.isPlaying]
        /\ ~TimeUp =>
              /\ state.lives = last.before.lives
              /\ state.isPlaying = last.before.isPlaying

\* An update half a turn after the boundary, with a direction held, that
\* advanced turnProgress and the countdown.
C15_Witness ==
    /\ BetweenTurns
    /\ last.before.currentlyPressedDirection # NoDirection
    /\ last.before.turnProgress = 0
    /\ state.turnProgress > 0
    /\ state.timeRemaining < last.before.timeRemaining

\* The last call was an update that executed a turn.
TurnRun == last.op = "update" /\ last.turn

\* The number of times the last call emitted the event.
Count(type) == Cardinality({i \in DOMAIN events : events[i] = type})

\* The boulders and diamonds that rest on the player when the turn starts.
Propped ==
    {p \in Fallables(TurnGrid) :
        /\ ~TurnGrid.cells[p].falling
        /\ Holds(TurnGrid, Below(p), PLAYER)}

\* C16: an executed turn resets the animation baselines, then moves the
\* player, then runs the physics, then checks for completion: movePlayer
\* runs on the grid with the baselines reset; the physics runs on the grid
\* the move left (a resting boulder whose supporting cell the player leaves
\* falls in the same turn); the completion check sees the grid the physics
\* left.
C16_TurnOrder ==
    TurnRun =>
        /\ last.action # NoDirection =>
              last.move = movePlayer(TurnGrid, last.action)
        /\ ~Emitted("DIAMOND_COLLECTED") =>
              last.phys = updatePhysics(IF last.action # NoDirection
                                        THEN last.move.grid ELSE TurnGrid)
        /\ (last.action # NoDirection /\ ~last.rebuilt) =>
              \A p \in Propped :
                 IsEmpty(last.move.grid, Below(p)) =>
                    /\ CellOf(last.afterTurn.level.grid, TurnGrid.cells[p].id)
                          = Below(p)
                    /\ last.afterTurn.level.grid.cells[Below(p)].falling
        /\ ~last.rebuilt => last.afterTurn.level.grid = last.phys.grid
        /\ Count("LEVEL_COMPLETE") =
              (IF last.action # NoDirection /\ last.move.levelComplete
               THEN 1 ELSE 0)
              + (IF checkLevelComplete(last.afterTurn.level.grid)
                 THEN 1 ELSE 0)

\* A turn in which the player stepped out from under a resting boulder and
\* the boulder fell into the cell the player left.
C16_Witness ==
    /\ TurnRun
    /\ last.action # NoDirection /\ last.move.success
    /\ \E p \in Propped :
          /\ IsEmpty(last.move.grid, Below(p))
          /\ CellOf(Grid, TurnGrid.cells[p].id) = Below(p)
          /\ Grid.cells[Below(p)].falling

\* The direction a turn at the time uses, given the state it starts from.
TurnDirection(st, time) ==
    IF st.currentlyPressedDirection # NoDirection
    THEN st.currentlyPressedDirection
    ELSE IF st.lastPressedDirection # NoDirection
            /\ time - st.lastPressTime <= TURN_DURATION_MS
    THEN st.lastPressedDirection
    ELSE NoDirection

\* C17: the direction of a turn is the held direction if one is set,
\* otherwise the last pressed direction if it was pressed no more than
\* TURN_DURATION_MS before the turn, otherwise none; with none movePlayer is
\* not called and the physics runs; otherwise movePlayer is called once,
\* with that direction.
C17_InputPriority ==
    TurnRun =>
        /\ last.action = TurnDirection(last.before, now)
        /\ last.action = NoDirection => last.move = None
        /\ last.action # NoDirection =>
              last.move = movePlayer(TurnGrid, last.action)
        /\ last.phys # None

\* A turn that used the held direction although another one had just been
\* pressed.
C17_Witness ==
    /\ TurnRun
    /\ last.before.currentlyPressedDirection = LEFT
    /\ last.before.lastPressedDirection = RIGHT
    /\ now - last.before.lastPressTime <= TURN_DURATION_MS
    /\ last.action = LEFT
    /\ last.move.success

\* The grid the rolling pass of the last updatePhysics found when it reached
\* the i-th cell of its order.
RollingAt(i) ==
    LET order == PhysicsOrder(GridBefore)
        afterGravity == GravityPass(PhysicsResult(GridBefore, FALSE, FALSE),
                                    order, 1)
    IN  RollingPass(afterGravity, SubSeq(order, 1, i - 1), 1).grid

\* The i-th cell of the order, and the grid the pass left when it had
\* treated it.
RollingCell(i) == PhysicsOrder(GridBefore)[i]
RollingAfter(i) == RollingAt(i + 1)

\* The positions at which the rolling pass found a boulder or a diamond.
Rollers ==
    {i \in DOMAIN PhysicsOrder(GridBefore) :
        RollingCell(i) \in Fallables(RollingAt(i))}

\* The cell diagonally below p on the side d (1 right, -1 left).
Diagonal(p, d) == <<p[1] + d, p[2] + 1>>

\* The entity in p lies on a boulder or diamond that is not falling.
OnResting(grid, p) ==
    /\ Below(p) \in Fallables(grid)
    /\ ~grid.cells[Below(p)].falling

\* The side cell and the diagonal cell on the side d are in bounds and empty.
SideFree(grid, p, d) ==
    IsEmpty(grid, <<p[1] + d, p[2]>>) /\ IsEmpty(grid, Diagonal(p, d))

\* The rolling pass moved the entity it found at its i-th cell to the
\* diagonal cell on the side d.
Rolled(i, d) ==
    CellOf(RollingAfter(i), RollingAt(i).cells[RollingCell(i)].id)
        = Diagonal(RollingCell(i), d)

\* C18: a boulder or diamond that the rolling pass finds on a resting one
\* with the side and diagonal cells free on the right rolls to the right,
\* whether or not the left is free too; it rolls to the left only when the
\* right is not free.
C18_RollsRightFirst ==
    last.op = "updatePhysics" =>
        \A i \in Rollers :
            LET grid == RollingAt(i)
                p == RollingCell(i)
            IN  /\ (OnResting(grid, p) /\ SideFree(grid, p, 1)) => Rolled(i, 1)
                /\ Rolled(i, -1) => ~SideFree(grid, p, 1)

\* A call in which a boulder free to roll to either side rolled to the right.
C18_Witness ==
    /\ last.op = "updatePhysics"
    /\ \E i \in Rollers :
          /\ OnResting(RollingAt(i), RollingCell(i))
          /\ SideFree(RollingAt(i), RollingCell(i), 1)
          /\ SideFree(RollingAt(i), RollingCell(i), -1)
          /\ Rolled(i, 1)

\* C19: in the rolling pass an attempt to roll a boulder or diamond to the
\* side d succeeds iff the side cell and the diagonal cell are in bounds and
\* empty, and it is attempted only for one lying on a boulder or diamond
\* that is not falling: the entity rolls iff it lies on such a one and a
\* side is free, it then is in the diagonal cell of a free side, its stored
\* position with it, with falling set, and the cell it left is empty;
\* otherwise the pass leaves the grid as it found it.
C19_RollRule ==
    last.op = "updatePhysics" =>
        \A i \in Rollers :
            LET grid == RollingAt(i)
                p == RollingCell(i)
                after == RollingAfter(i)
            IN  /\ \A d \in {1, -1} :
                      /\ tryRollDirection(grid, p[1], p[2], d).moved
                            <=> SideFree(grid, p, d)
                      /\ Rolled(i, d) =>
                            /\ OnResting(grid, p) /\ SideFree(grid, p, d)
                            /\ after.cells[Diagonal(p, d)] =
                                  startFalling(setPosition(grid.cells[p],
                                      Diagonal(p, d)[1], Diagonal(p, d)[2]))
                            /\ after = [grid EXCEPT
                                  !.cells[p] = Null,
                                  !.cells[Diagonal(p, d)] =
                                      after.cells[Diagonal(p, d)]]
                /\ (Rolled(i, 1) \/ Rolled(i, -1)) <=>
                      (OnResting(grid, p)
                         /\ (SideFree(grid, p, 1) \/ SideFree(grid, p, -1)))
                /\ ~(Rolled(i, 1) \/ Rolled(i, -1)) => after = grid

\* A call in which a boulder with the right side cell taken rolled to the
\* left.
C19_Witness ==
    /\ last.op = "updatePhysics"
    /\ \E i \in Rollers :
          /\ ~IsEmpty(RollingAt(i), <<RollingCell(i)[1] + 1, RollingCell(i)[2]>>)
          /\ IsEmpty(RollingAt(i), Diagonal(RollingCell(i), 1))
          /\ Rolled(i, -1)
          /\ RollingAfter(i).cells[Diagonal(RollingCell(i), -1)].falling

\* The boulders and diamonds on the bottom row.
OnFloor(grid) == {p \in Fallables(grid) : Below(p) \notin DOMAIN grid.cells}

\* C20: a boulder or diamond on the bottom row does not move and comes out
\* of the next updatePhysics with its falling flag cleared.
C20_FloorStopsFalling ==
    last.op = "updatePhysics" =>
        \A p \in OnFloor(GridBefore) :
            /\ CellOf(Grid, GridBefore.cells[p].id) = p
            /\ ~Grid.cells[p].falling

\* C21: after every call of updatePhysics a boulder or diamond has its
\* falling flag set iff the call moved it (it is in another cell than
\* before); one the call did not move has the flag cleared.
C21_FallingIffMoved ==
    last.op = "updatePhysics" =>
        \A p \in Fallables(Grid) :
            Grid.cells[p].falling <=> CellOf(GridBefore, Grid.cells[p].id) # p

\* C24: a call of movePlayer that returns success = false leaves the grid
\* as it was: every cell's content and every entity's position and state.
C24_FailedMoveChangesNothing ==
    (last.op = "movePlayer" /\ ~last.move.success) => Grid = GridBefore

\* C26: after any sequence of moves and physics calls every entity a cell
\* references, the player included, has its stored coordinates inside the
\* grid.
C26_BoundedMovement ==
    \A p \in Occupied(Grid) :
        /\ 0 <= Grid.cells[p].x /\ Grid.cells[p].x < Grid.width
        /\ 0 <= Grid.cells[p].y /\ Grid.cells[p].y < Grid.height

\* A player at the edge of the grid whose move over the edge failed, and a
\* boulder that has rolled to the edge.
C26_Witness ==
    /\ last.op = "movePlayer" /\ ~last.move.success
    /\ Target(ThePlayer(GridBefore), last.arg) \notin DOMAIN Grid.cells
    /\ \E p \in Fallables(Grid) :
          /\ CellOf(last.before.level.grid, Grid.cells[p].id) = p
          /\ Grid.cells[p].falling
          /\ p[1] = Grid.width - 1

\* C29: when a live player moves onto a cell that holds dirt, the move
\* succeeds, the player is in that cell (its stored position with it), the
\* cell it came from is empty and the dirt is no longer in the grid; and no
\* dug dirt is ever left in a cell, so that a later move into the cell finds
\* it empty.
C29_Dig ==
    /\ \A p \in Occupied(Grid) : Grid.cells[p].type # EMPTY
    /\ last.op = "movePlayer" =>
          LET player == ThePlayer(GridBefore)
              target == Target(player, last.arg)
          IN  (player.alive /\ Holds(GridBefore, target, DIRT)) =>
                 /\ last.move.success
                 /\ CellOf(Grid, player.id) = target
                 /\ <<ThePlayer(Grid).x, ThePlayer(Grid).y>> = target
                 /\ IsEmpty(Grid, CellOf(GridBefore, player.id))
                 /\ CellOf(Grid, GridBefore.cells[target].id) = NoCell

\* C25: canMove returns true exactly when movePlayer, of the MovementSystem
\* and of GameLogic, with the same direction on the same grid returns
\* success; canMove changes nothing.
C25_CanMoveMirrorsMovePlayer ==
    last.op = "canMove" =>
        /\ Grid = GridBefore
        /\ last.move.success
              <=> movementSystemMovePlayer(Grid, last.arg).success
        /\ last.move.success <=> movePlayer(Grid, last.arg).success

\* A coordinate operation of the grid has just returned, and one of the
\* cells it was given lies outside the grid.
GridOps == {"getEntity", "setEntity", "moveEntity", "removeEntity"}
OutOfBounds ==
    /\ last.op \in GridOps
    /\ \/ ~isValidPosition(GridBefore, last.arg[1], last.arg[2])
       \/ last.op = "moveEntity"
            /\ ~isValidPosition(GridBefore, last.arg[3], last.arg[4])

\* C22: a coordinate operation of GameGrid given a cell outside the grid
\* returns null (getEntity, removeEntity) or false (setEntity, moveEntity)
\* and leaves the grid, and with it every entity, as it was.
C22_FailClosed ==
    OutOfBounds =>
        /\ last.result = IF last.op \in {"getEntity", "removeEntity"}
                         THEN Null ELSE FALSE
        /\ Grid = GridBefore

\* A move from a cell that holds an entity to a cell outside the grid has
\* been refused.
C22_Witness ==
    /\ OutOfBounds
    /\ last.op = "moveEntity"
    /\ isValidPosition(GridBefore, last.arg[1], last.arg[2])
    /\ GridBefore.cells[<<last.arg[1], last.arg[2]>>] # Null
    /\ last.result = FALSE

\* moveEntity has just returned, and both cells it was given are in the grid.
InBoundsMove ==
    /\ last.op = "moveEntity"
    /\ isValidPosition(GridBefore, last.arg[1], last.arg[2])
    /\ isValidPosition(GridBefore, last.arg[3], last.arg[4])
MoveSrc == <<last.arg[1], last.arg[2]>>
MoveDst == <<last.arg[3], last.arg[4]>>
MoveRefused ==
    \/ GridBefore.cells[MoveSrc] = Null
    \/ GridBefore.cells[MoveDst] # Null /\ GridBefore.cells[MoveDst].solid

\* The moved entity is in the destination cell with the destination as its
\* stored position, and the cells other than source and destination are as
\* they were.
MoveLanded ==
    /\ last.result = TRUE
    /\ Grid.cells[MoveDst] # Null
    /\ Grid.cells[MoveDst].id = GridBefore.cells[MoveSrc].id
    /\ Grid.cells[MoveDst].x = MoveDst[1]
    /\ Grid.cells[MoveDst].y = MoveDst[2]
    /\ \A p \in DOMAIN Grid.cells \ {MoveSrc, MoveDst} :
          Grid.cells[p] = GridBefore.cells[p]

\* C23 (as stated): moveEntity between two cells of the grid returns false
\* and changes nothing when the source is empty or the destination holds a
\* solid entity; otherwise it returns true, the source is empty, the
\* destination holds the moved entity with the destination as its stored
\* position, and no other cell changes.
C23_MoveFrameAnyCells ==
    InBoundsMove =>
        IF MoveRefused
        THEN last.result = FALSE /\ Grid = GridBefore
        ELSE MoveLanded /\ Grid.cells[MoveSrc] = Null

\* C23 (amended): as above, the source being empty after a move to another
\* cell; a move of an entity that is not solid to its own cell returns true
\* and leaves the grid as it was.
C23_MoveFrame ==
    InBoundsMove =>
        IF MoveRefused
        THEN last.result = FALSE /\ Grid = GridBefore
        ELSE /\ MoveLanded
             /\ MoveSrc # MoveDst => Grid.cells[MoveSrc] = Null
             /\ MoveSrc = MoveDst => Grid = GridBefore

\* A move onto a cell that holds an entity that is not solid has replaced it.
C23_Witness ==
    /\ InBoundsMove
    /\ ~MoveRefused
    /\ MoveSrc # MoveDst
    /\ GridBefore.cells[MoveDst] # Null
    /\ last.result = TRUE
    /\ Grid.cells[MoveSrc] = Null

\* The character of the layout for cell (x,y), a space where the row is
\* shorter.
LayoutChar(layout, x, y) ==
    IF x + 1 <= Len(layout[y + 1]) THEN layout[y + 1][x + 1] ELSE " "

\* The entity type the character map gives for a character, EMPTY for none.
CharType(char) ==
    CASE char = "@" -> PLAYER
      [] char = "#" -> WALL
      [] char = "." -> DIRT
      [] char = "*" -> DIAMOND
      [] char = "O" -> BOULDER
      [] char = "E" -> EXIT
      [] OTHER -> EMPTY

\* C28: a Level constructed from a layout has as many rows as the layout and
\* as many columns as its longest row; each cell (x,y) holds the entity the
\* character map gives for the layout's character there, with (x,y) as its
\* stored position and, for an Exit, the level's quota; the cell is empty for
\* a space, any other character, and past the end of a short row.
C28_LayoutCells ==
    last.op = "Level" =>
        /\ Grid.height = Len(last.arg.layout)
        /\ Grid.width = MaxRowLength(last.arg.layout)
        /\ DOMAIN Grid.cells = (0 .. Grid.width - 1) \X (0 .. Grid.height - 1)
        /\ \A p \in DOMAIN Grid.cells :
              LET type == CharType(LayoutChar(last.arg.layout, p[1], p[2]))
              IN  IF type = EMPTY
                  THEN Grid.cells[p] = Null
                  ELSE /\ Grid.cells[p] # Null
                       /\ Grid.cells[p].type = type
                       /\ Grid.cells[p].x = p[1] /\ Grid.cells[p].y = p[2]
                       /\ type = EXIT =>
                             Grid.cells[p].diamondsRequired
                                = last.arg.diamondsRequired

\* A Level constructed from a layout with a short first row, an exit, and a
\* character the factory does not know.
C28_Witness ==
    /\ last.op = "Level"
    /\ last.arg.layout = << <<"E">>, <<"?", "@">> >>
    /\ last.arg.diamondsRequired = 1
    /\ Grid.cells[<<1, 0>>] = Null
    /\ Grid.cells[<<0, 1>>] = Null
    /\ Grid.cells[<<0, 0>>].diamondsRequired = 1

\* The invocations the events evs cause with the registry eventListeners:
\* for each event in turn, each callback registered for its type, in
\* registration order.
RECURSIVE Invocations(_, _)
Invocations(eventListeners, evs) ==
    IF evs = <<>> THEN <<>>
    ELSE [i \in 1 .. Len(Listeners(eventListeners, Head(evs)))
             |-> <<Listeners(eventListeners, Head(evs))[i], Head(evs)>>]
         \o Invocations(eventListeners, Tail(evs))

\* listener is registered for eventType.
Registered(eventListeners, eventType, listener) ==
    \E i \in 1 .. Len(Listeners(eventListeners, eventType)) :
        Listeners(eventListeners, eventType)[i] = listener

\* The array without the first occurrence of listener.
WithoutFirst(listeners, listener) ==
    IF indexOf(listeners, listener) = 0 THEN listeners
    ELSE SubSeq(listeners, 1, indexOf(listeners, listener) - 1)
         \o SubSeq(listeners, indexOf(listeners, listener) + 1, Len(listeners))

\* Every call invokes, for each event it emits, the callbacks registered
\* for the event's type, in registration order, and no other; destroy
\* leaves the registry empty and the engine not playing.
EmitsToRegistered ==
    /\ last.calls = Invocations(state.eventListeners, events)
    /\ last.op = "destroy" =>
          /\ state.eventListeners = <<>>
          /\ ~state.isPlaying

GridAfterTurn == last.afterTurn.level.grid

\* C30: after an executed turn every entity of the grid is animating exactly
\* if its position differs from the one it had when the turn started, and
\* its previous position is the one it had when the turn started:
\* getInterpolatedPosition gives that position at progress 0 and the
\* current one at progress 1.  (Turns that replace the level's objects are
\* left out.)
C30_InterpolationBaseline ==
    (TurnRun /\ ~last.rebuilt) =>
        \A p \in Occupied(GridAfterTurn) :
            LET entity == GridAfterTurn.cells[p]
                q == CellOf(GridBefore, entity.id)
            IN  q # NoCell =>
                    /\ entity.isAnimating
                          <=> (entity.x # GridBefore.cells[q].x
                               \/ entity.y # GridBefore.cells[q].y)
                    /\ entity.previousX = GridBefore.cells[q].x
                    /\ entity.previousY = GridBefore.cells[q].y
                    /\ getInterpolatedPosition(entity, 0)
                          = [x |-> GridBefore.cells[q].x, y |-> GridBefore.cells[q].y]
                    /\ getInterpolatedPosition(entity, 1)
                          = [x |-> entity.x, y |-> entity.y]

\* The last call was an update of an engine that was playing and not paused,
\* and the time since the last turn boundary when it was made.
RunningUpdate == last.op = "update" /\ ~Idle(last.before)
Elapsed == now - last.before.lastTurnTime

\* C31: an update of a running engine executes a turn exactly if at least
\* TURN_DURATION_MS have passed since the last turn boundary, and one turn
\* only however long it has been: the turn counter grows by 1 with a turn and
\* by 0 without, and the boundary moves to the time of the call with a turn
\* and stays without.
C31_TurnCadence ==
    RunningUpdate =>
        /\ last.turn <=> Elapsed >= TURN_DURATION_MS
        /\ state.currentTurn
              = last.before.currentTurn + (IF last.turn THEN 1 ELSE 0)
        /\ state.lastTurnTime
              = (IF last.turn THEN now ELSE last.before.lastTurnTime)

\* An update made two turn lengths or more after the boundary has executed
\* one turn.
C31_Witness ==
    /\ RunningUpdate
    /\ Elapsed >= 2 * TURN_DURATION_MS
    /\ last.turn
    /\ state.currentTurn = last.before.currentTurn + 1
    /\ state.lastTurnTime = now

\* turnProgress, kept in milliseconds (the code divides by TURN_DURATION_MS),
\* lies between 0 and a whole turn.
ProgressInRange ==
    0 <= state.turnProgress /\ state.turnProgress <= TURN_DURATION_MS

\* C32 (as stated): turnProgress is within [0,1]; after any update it is
\* min(elapsed / TURN_DURATION_MS, 1) if the call executed no turn and 0 if
\* it executed one.
C32_ProgressAfterAnyUpdate ==
    /\ ProgressInRange
    /\ last.op = "update" =>
          state.turnProgress
             = (IF last.turn THEN 0 ELSE Min(Elapsed, TURN_DURATION_MS))

\* C32 (amended): turnProgress is within [0,1]; after an update of a playing,
\* unpaused engine it is min(elapsed / TURN_DURATION_MS, 1) if the call
\* executed no turn and 0 if it executed one; an update of a paused or
\* stopped engine leaves it as it was.
C32_Progress ==
    /\ ProgressInRange
    /\ RunningUpdate =>
          state.turnProgress
             = (IF last.turn THEN 0 ELSE Min(Elapsed, TURN_DURATION_MS))
    /\ (last.op = "update" /\ Idle(last.before)) =>
          state.turnProgress = last.before.turnProgress

\* An update half a turn after the boundary has set turnProgress to a half.
C32_Witness ==
    /\ RunningUpdate
    /\ ~last.turn
    /\ 2 * Elapsed = TURN_DURATION_MS
    /\ 2 * state.turnProgress = TURN_DURATION_MS

\* The grid the gravity pass of the last updatePhysics left.
AfterGravity == RollingAt(1)

\* The entity in p belongs to a contiguous column of boulders and diamonds
\* that stands on an empty cell of the grid.
RECURSIVE OverEmpty(_, _)
OverEmpty(grid, p) ==
    \/ IsEmpty(grid, Below(p))
    \/ Below(p) \in Fallables(grid) /\ OverEmpty(grid, Below(p))

\* C33: every boulder and diamond of a contiguous column that stands on an
\* empty cell when updatePhysics is called is one row lower after the
\* gravity pass of that call, and falling.
C33_StackFalls ==
    last.op = "updatePhysics" =>
        \A p \in Fallables(GridBefore) :
            OverEmpty(GridBefore, p) =>
                /\ CellOf(AfterGravity, GridBefore.cells[p].id) = Below(p)
                /\ AfterGravity.cells[Below(p)].falling
                /\ AfterGravity.cells[Below(p)].y = p[2] + 1

\* A boulder on a diamond on an empty cell: both went down one row in the
\* gravity pass.
C33_Witness ==
    /\ last.op = "updatePhysics"
    /\ \E p \in Fallables(GridBefore) :
          /\ Below(p) \in Fallables(GridBefore)
          /\ IsEmpty(GridBefore, Below(Below(p)))
          /\ CellOf(AfterGravity, GridBefore.cells[p].id) = Below(p)
          /\ CellOf(AfterGravity, GridBefore.cells[Below(p)].id) = Below(Below(p))
          /\ AfterGravity.cells[Below(p)].falling
          /\ AfterGravity.cells[Below(Below(p))].falling

\* The grid the level instance started with, the number of entities of a
\* type in a grid, and the identities of the objects a grid references.
InitialGrid == Level(state.levelData).grid
CountType(grid, type) ==
    Cardinality({p \in Occupied(grid) : grid.cells[p].type = type})
Ids(grid) == {grid.cells[p].id : p \in Occupied(grid)}

\* C34: within a level instance no boulder, wall or exit is ever lost or
\* added and the player is referenced by exactly one cell; the diamonds in
\* the grid and the diamonds the player has collected add up to the initial
\* number of diamonds; updatePhysics loses no object, and a movePlayer loses
\* at most the diamond collected or the dirt dug.
C34_Conservation ==
    /\ \A type \in {BOULDER, WALL, EXIT} :
          CountType(Grid, type) = CountType(InitialGrid, type)
    /\ CountType(Grid, PLAYER) = 1
    /\ CountType(Grid, DIAMOND) + ThePlayer(Grid).diamondsCollected
          = CountType(InitialGrid, DIAMOND)
    /\ last.op = "updatePhysics" => Ids(Grid) = Ids(GridBefore)
    /\ last.op = "movePlayer" =>
          /\ Ids(Grid) \subseteq Ids(GridBefore)
          /\ \A p \in Occupied(GridBefore) :
                GridBefore.cells[p].id \notin Ids(Grid)
                   => /\ GridBefore.cells[p].type \in {DIAMOND, DIRT}
                      /\ p = Target(ThePlayer(GridBefore), last.arg)

\* A boulder has been pushed next to a diamond and a further push against
\* it has been refused, the diamond still being there.
C34_Witness ==
    /\ last.op = "movePlayer"
    /\ ~last.move.success
    /\ Holds(GridBefore, Target(ThePlayer(GridBefore), last.arg), BOULDER)
    /\ last.arg = RIGHT
    /\ \E p \in Occupied(Grid) :
          /\ Grid.cells[p].type = DIAMOND
          /\ p = <<ThePlayer(GridBefore).x + 2, ThePlayer(GridBefore).y>>
    /\ CountType(Grid, DIAMOND) = CountType(InitialGrid, DIAMOND)

\* C35: lives is never below 0 nor above the initial number, and an update
\* takes at most one life.
C35_LivesInRange ==
    /\ 0 <= state.lives /\ state.lives <= InitialLives
    /\ last.op = "update" => state.lives >= last.before.lives - 1

\* C36: the update in which lives reach 0 emits GAME_OVER once (each
\* listener of GAME_OVER is invoked once per emission), and an update that
\* leaves lives above 0 does not emit it.
C36_GameOverOnce ==
    last.op = "update" =>
        /\ (last.before.lives > 0 /\ state.lives <= 0)
              => Count("GAME_OVER") = 1
        /\ state.lives > 0 => Count("GAME_OVER") = 0

\* C37: the turn in which the player enters the open exit emits
\* LEVEL_COMPLETE once (each listener of LEVEL_COMPLETE is invoked once per
\* emission).
C37_LevelCompleteOnce ==
    (ExitMoveInTurn /\ last.move.success) => Count("LEVEL_COMPLETE") = 1

\* C38: between the calls, the player of the level of a playing engine is
\* alive.
C38_PlayingPlayerAlive ==
    state.isPlaying => ThePlayer(Grid).alive

\* Calling updatePhysics on grid again and again, with no move of the player
\* in between, reaches within n further calls a call that reports no move,
\* and the call after that one reports no move and leaves the grid, falling
\* flags included, as it found it (so does every later call, the function
\* being applied to the same grid).
RECURSIVE Settles(_, _)
Settles(grid, n) ==
    IF ~updatePhysics(grid).entityMoved
    THEN /\ ~updatePhysics(updatePhysics(grid).grid).entityMoved
         /\ updatePhysics(updatePhysics(grid).grid).grid
               = updatePhysics(grid).grid
    ELSE n > 0 /\ Settles(updatePhysics(grid).grid, n - 1)

\* Every fall and roll takes an entity one row down: no more calls move
\* something than there are cells times rows.
MostCalls(grid) == grid.width * grid.height * grid.height

\* C39: from every grid, repeated updatePhysics calls without a move of the
\* player come to a call that returns entityMoved = false, and the calls
\* after it move nothing and leave the grid and the falling flags as they
\* are.
C39_PhysicsSettles ==
    Settles(Grid, MostCalls(Grid))

\* A call of updatePhysics moved something, the next call will, and a later
\* one will not.
C39_Witness ==
    /\ last.op = "updatePhysics"
    /\ last.phys.entityMoved
    /\ updatePhysics(Grid).entityMoved
    /\ ~updatePhysics(updatePhysics(Grid).grid).entityMoved
    /\ Settles(Grid, MostCalls(Grid))

\* C40: with no direction held, at most one executed turn attempts a move
\* after a press, until the next press.
C40_OneAttemptPerPress ==
    last.attempts <= 1

=============================================================================
